---- MODULE Spec2Model ----
(***************************************************************************)
(* A model of lunatic-redis: the Connection request/response contract      *)
(* (req_packed_command, req_packed_commands) and the optimistic            *)
(* transaction helper (transaction), against a server that answers every   *)
(* command with one reply and implements WATCH / MULTI / EXEC / UNWATCH.   *)
(* Further parts: the subscriber session (RedisPubSub), liveness of a      *)
(* connection (is_open, check_connection), equality of RedisError, the     *)
(* connect sequence (AUTH, SELECT), the handles that share one socket      *)
(* (clone, strip, with_parser, as_pubsub), the database number of a        *)
(* redis:// URL (url_to_tcp_connection_info), the address loop of          *)
(* ActualConnection::new and the value parser under partial reads.         *)
(***************************************************************************)
EXTENDS Integers, Sequences, FiniteSets, TLC

(* ---------------------------------------------------------------- bounds *)

\* Largest response_offset / response_count of a req_packed_commands call.
MaxOffset == 1
MaxCount == 2
\* Calls issued on the pipelined connection.
MaxCalls == 2
\* I/O failures (write or read) the environment injects in one behaviour.
MaxIoFail == 1
\* Writes to the watched key by a party outside the transactions.
MaxMut == 1

(* --------------------------------------------------------- option values *)

None == <<>>
Some(x) == <<x>>

(* ------------------------------------------------------------- variables *)

VARIABLES
    \* --- Connection used for pipelining (connection.rs)
    open,       \* ActualConnection open flag
    wire,       \* replies the server has written and the client has not read
    ppc,        \* "idle" | "reading": position inside req_packed_commands
    cur,        \* locals of the running req_packed_commands call
    last,       \* the call that has just returned (until the next one starts)
    prev,       \* summary of the call that returned before that
    ncalls,     \* calls issued so far (ids of the commands sent)
    iofails,    \* I/O failures injected so far
    \* --- transaction() clients and the server they share
    store,      \* server: value of key K
    watch,      \* server: per client, is K watched and was it touched since
    tx,         \* per client: position and locals of transaction()
    hist,       \* per client: history of what the client has done
    env,        \* k0, modification count, mutations, I/O failures
    \* --- RedisPubSub session (pubsub.rs) on a connection of its own, which
    \*     uses open, wire and iofails above for its transport
    subs,                 \* server: topics and patterns the connection holds
    subscribed_topics,    \* RedisPubSub.subscribed_topics
    subscribed_patterns,  \* RedisPubSub.subscribed_patterns
    ps,                   \* "session" | "released" | "dropped"
    pslast,               \* the session call that has just returned
    received,             \* what receive() has returned so far
    budget,               \* calls and publishes made so far, frames published
    \* --- liveness of a connection, connect(), the handles on one socket,
    \*     comparison of errors
    lv,         \* the call on the connection that has just returned
    cn,         \* connect(): its input, the server, position and result
    hs,         \* the handles (Connection, StrippedConnection, RedisPubSub)
    sock,       \* the socket they share: who used it and for what
    cmp,        \* two RedisErrors and the result of comparing them
    \* --- the inputs of a connection: its URL, its addresses, its bytes
    url,        \* a URL path and the database index parsed from it
    dial,       \* ActualConnection::new: the addresses and the attempts made
    dec         \* a Value, its RESP bytes, and the parser reading them

pipeVars == <<open, wire, ppc, cur, last, prev, ncalls, iofails>>
txVars == <<store, watch, tx, hist, env>>
psVars == <<subs, subscribed_topics, subscribed_patterns, ps, pslast, received, budget>>
coVars == <<lv, cn, hs, sock, cmp>>
inVars == <<url, dial, dec>>
vars == <<open, wire, ppc, cur, last, prev, ncalls, iofails,
          store, watch, tx, hist, env,
          subs, subscribed_topics, subscribed_patterns, ps, pslast, received, budget,
          lv, cn, hs, sock, cmp,
          url, dial, dec>>

(* ------------------------------------------------------------ RedisError *)

\* io::ErrorKind values a failing write can report.
IoKinds == {"BrokenPipe", "ConnectionReset", "TimedOut"}

\* The failures injected into writes: one that means the connection was
\* dropped and one that does not. The read path never looks at the kind of
\* a failure, so reads are made to fail with the first only.
FailKinds == {"BrokenPipe", "TimedOut"}
ReadFailKinds == {"BrokenPipe"}

IoError(k) == [call |-> 0, idx |-> 0, kind |-> "io", io |-> k]

\* RedisError::is_timeout
is_timeout(e) == e.kind = "io" /\ e.io \in {"TimedOut", "WouldBlock"}

\* RedisError::is_connection_dropped
\* (is_connection_dropped_or_timeout: the faulty variant that takes a timeout
\* for a dropped connection too.)
is_connection_dropped_or_timeout(e) ==
    e.kind = "io" /\ e.io \in {"BrokenPipe", "ConnectionReset", "TimedOut", "WouldBlock"}
is_connection_dropped(e) == e.kind = "io" /\ e.io \in {"BrokenPipe", "ConnectionReset"}

(* ---------------------------------------------------------------- server *)

\* The server answers the n commands of call `id` in order, one reply each;
\* the commands whose index is in errs are answered with an error frame.
ServerReplies(id, n, errs) ==
    [i \in 1..n |-> [call |-> id, idx |-> i - 1,
                     kind |-> IF (i - 1) \in errs THEN "err" ELSE "val",
                     io |-> "none"]]

(* ------------------------------------------------------------ Connection *)

\* ActualConnection::send_bytes: the flag after a write with outcome w
\* ("ok" or an io::ErrorKind).
\* (send_bytes_open_reopen: the faulty variant in which a write that succeeds
\* marks the connection open again.)
send_bytes_open_reopen(o, w) ==
    IF w = "ok" THEN TRUE
    ELSE IF is_connection_dropped(IoError(w)) THEN FALSE ELSE o
send_bytes_open(o, w) ==
    IF w # "ok" /\ is_connection_dropped(IoError(w)) THEN FALSE ELSE o

\* Connection::read_response: parse the next frame off the socket; r is the
\* read's outcome ("ok" or an io::ErrorKind). A failing read yields an error
\* and consumes nothing. An error frame is turned into Err by the parser.
read_response(w, r) ==
    IF r # "ok" THEN [resp |-> IoError(r), wire |-> w]
    ELSE [resp |-> Head(w), wire |-> Tail(w)]

\* Connection::read_response, `if let Err(e) = &result`: the flag after a read
\* with outcome r. as_io_error() is None for every error, so shutdown is
\* false, and the arms that would clear the flag are empty.
\* (read_response_open_shutdown: the variant that clears it as send_bytes does.)
read_response_open_shutdown(o, r) ==
    IF r # "ok" /\ is_connection_dropped(IoError(r)) THEN FALSE ELSE o
read_response_open(o, r) ==
    o

IsOk(resp) == resp.kind = "val"

\* req_packed_command / req_packed_commands, `self.con.send_bytes(cmd)?`: the
\* call returns at this point, with the write's error, iff the write failed.
\* (ReturnsOnWriteErrorNever: the faulty variant that discards the write's
\* error and goes on to read.)
ReturnsOnWriteErrorNever(w) ==
    FALSE
ReturnsOnWriteError(w) ==
    w # "ok"

\* req_packed_commands, the loop header: for idx in 0..(offset + count)
\* (KeepReadingBail: the faulty variant that stops at the first error.)
KeepReadingBail(idx, offset, count, first_err) ==
    idx < offset + count /\ first_err = None
KeepReading(idx, offset, count, first_err) ==
    idx < offset + count

\* req_packed_commands, Ok(item) arm: if idx >= offset { rv.push(item) }
\* (PushItemOffByOne: the faulty variant with idx > offset.)
PushItemOffByOne(rv, idx, offset, item) ==
    IF idx > offset THEN Append(rv, item) ELSE rv
PushItem(rv, idx, offset, item) ==
    IF idx >= offset THEN Append(rv, item) ELSE rv

\* req_packed_commands, Err(err) arm: if first_err.is_none() { first_err = Some(err) }
\* (NextFirstErrLast: the faulty variant that keeps the latest error.)
NextFirstErrLast(first_err, err) ==
    Some(err)
NextFirstErr(first_err, err) ==
    IF first_err = None THEN Some(err) ELSE first_err

\* req_packed_commands, the tail: first_err.map_or(Ok(rv), Err)
MapOr(rv, first_err) ==
    IF first_err = None THEN [ok |-> TRUE, vals |-> rv, err |-> None]
    ELSE [ok |-> FALSE, vals |-> <<>>, err |-> first_err]

\* One iteration of the loop on locals c with response resp.
LoopBody(c, resp) ==
    [c EXCEPT !.idx = c.idx + 1,
              !.got = Append(c.got, resp),
              !.rv = IF IsOk(resp) THEN PushItem(c.rv, c.idx, c.offset, resp) ELSE c.rv,
              !.first_err = IF IsOk(resp) THEN c.first_err
                            ELSE NextFirstErr(c.first_err, resp)]

\* History kept with a call: got, the responses its reads returned, in order,
\* and stale, the replies that were still unread when its bytes were written.
NoCall == [kind |-> "none", id |-> 0, offset |-> 0, count |-> 0, written |-> FALSE,
           stale |-> 0, got |-> <<>>, res |-> MapOr(<<>>, None)]
NoCur == [id |-> 0, offset |-> 0, count |-> 0, idx |-> 0, rv |-> <<>>,
          first_err |-> None, stale |-> 0, got |-> <<>>, written |-> FALSE]
\* What is remembered of a returned call once the next one has started: was
\* it a batch req_packed_commands(.., 0, N >= 2) or a single command, did it
\* start on a stream without stale replies and read without timeout (sync),
\* how many error frames did it read, and was its last reply one.
Summary(c) == [kind |-> c.kind, written |-> c.written,
               batch |-> c.offset = 0 /\ c.count >= 2,
               sync |-> c.stale = 0 /\ \A i \in 1..Len(c.got) : c.got[i].kind # "io",
               nerr |-> Cardinality({i \in 1..Len(c.got) : c.got[i].kind = "err"}),
               lasterr |-> c.got # <<>> /\ c.got[Len(c.got)].kind # "val"]

PipeInit ==
    /\ open = TRUE
    /\ wire = <<>>
    /\ ppc = "idle"
    /\ cur = NoCur
    /\ last = NoCall
    /\ prev = Summary(NoCall)
    /\ ncalls = 0
    /\ iofails = 0
    /\ store = 0
    /\ watch = <<>>
    /\ tx = <<>>
    /\ hist = <<>>
    /\ env = <<>>
    /\ subs = <<>>
    /\ subscribed_topics = <<>>
    /\ subscribed_patterns = <<>>
    /\ ps = "none"
    /\ pslast = <<>>
    /\ received = <<>>
    /\ budget = <<>>
    /\ lv = <<>>
    /\ cn = <<>>
    /\ hs = <<>>
    /\ sock = <<>>
    /\ cmp = <<>>
    /\ url = <<>>
    /\ dial = <<>>
    /\ dec = <<>>

\* req_packed_commands(cmd, offset, count), up to the loop: send_bytes(cmd)?
\* and the two `let mut`. The bytes hold offset + count commands; w is the
\* write's outcome, and the server answers only what reached it.
PipeSend(offset, count, errs, w) ==
    /\ ppc = "idle"
    /\ ncalls < MaxCalls
    /\ ~ReturnsOnWriteError(w)
    /\ (w # "ok") => (errs = {} /\ iofails < MaxIoFail)
    /\ ncalls' = ncalls + 1
    /\ open' = send_bytes_open(open, w)
    /\ wire' = IF w = "ok" THEN wire \o ServerReplies(ncalls + 1, offset + count, errs)
               ELSE wire
    /\ cur' = [id |-> ncalls + 1, offset |-> offset, count |-> count, idx |-> 0,
               rv |-> <<>>, first_err |-> None, stale |-> Len(wire), got |-> <<>>,
               written |-> (w = "ok")]
    /\ ppc' = "reading"
    /\ last' = NoCall
    /\ prev' = Summary(last)
    /\ iofails' = IF w = "ok" THEN iofails ELSE iofails + 1
    /\ UNCHANGED txVars
    /\ UNCHANGED psVars
    /\ UNCHANGED coVars
    /\ UNCHANGED inVars

\* req_packed_commands whose send_bytes fails: `?` returns the write error.
PipeSendFails(offset, count, k) ==
    /\ ppc = "idle"
    /\ ncalls < MaxCalls
    /\ ReturnsOnWriteError(k)
    /\ iofails < MaxIoFail
    /\ ncalls' = ncalls + 1
    /\ iofails' = iofails + 1
    /\ open' = send_bytes_open(open, k)
    /\ last' = [kind |-> "pipe", id |-> ncalls + 1, offset |-> offset, count |-> count,
                written |-> FALSE, stale |-> Len(wire), got |-> <<>>,
                res |-> [ok |-> FALSE, vals |-> <<>>, err |-> Some(IoError(k))]]
    /\ prev' = Summary(last)
    /\ UNCHANGED <<wire, ppc, cur>>
    /\ UNCHANGED txVars
    /\ UNCHANGED psVars
    /\ UNCHANGED coVars
    /\ UNCHANGED inVars

\* One iteration of the loop of req_packed_commands.
PipeRead(fail) ==
    /\ ppc = "reading"
    /\ KeepReading(cur.idx, cur.offset, cur.count, cur.first_err)
    /\ IF fail # "ok" THEN iofails < MaxIoFail /\ iofails' = iofails + 1
       ELSE wire # <<>> /\ iofails' = iofails
    /\ LET r == read_response(wire, fail) IN
         /\ wire' = r.wire
         /\ cur' = LoopBody(cur, r.resp)
    /\ open' = read_response_open(open, fail)
    /\ UNCHANGED <<ppc, last, prev, ncalls>>
    /\ UNCHANGED txVars
    /\ UNCHANGED psVars
    /\ UNCHANGED coVars
    /\ UNCHANGED inVars

\* The loop of req_packed_commands is over: first_err.map_or(Ok(rv), Err).
PipeReturn ==
    /\ ppc = "reading"
    /\ ~KeepReading(cur.idx, cur.offset, cur.count, cur.first_err)
    /\ last' = [kind |-> "pipe", id |-> cur.id, offset |-> cur.offset, count |-> cur.count,
                written |-> cur.written, stale |-> cur.stale, got |-> cur.got,
                res |-> MapOr(cur.rv, cur.first_err)]
    /\ ppc' = "idle"
    /\ cur' = NoCur
    /\ UNCHANGED <<open, wire, prev, ncalls, iofails>>
    /\ UNCHANGED txVars
    /\ UNCHANGED psVars
    /\ UNCHANGED coVars
    /\ UNCHANGED inVars

\* req_packed_command(cmd): send_bytes(cmd)?; read_response(None).
\* w is the write's outcome, err whether the server answers with an error
\* frame, fail the read's outcome.
ReqPackedCommand(w, err, fail) ==
    /\ ppc = "idle"
    /\ ncalls < MaxCalls
    /\ ncalls' = ncalls + 1
    /\ open' = IF ReturnsOnWriteError(w) THEN send_bytes_open(open, w)
               ELSE read_response_open(send_bytes_open(open, w), fail)
    /\ (w # "ok" \/ fail # "ok") => iofails < MaxIoFail
    /\ iofails' = IF w # "ok" \/ fail # "ok" THEN iofails + 1 ELSE iofails
    /\ IF ReturnsOnWriteError(w)
       THEN /\ wire' = wire
            /\ last' = [kind |-> "cmd", id |-> ncalls + 1, offset |-> 0, count |-> 1,
                        written |-> FALSE, stale |-> Len(wire), got |-> <<>>,
                        res |-> [ok |-> FALSE, vals |-> <<>>, err |-> Some(IoError(w))]]
       ELSE LET sent == IF w = "ok"
                        THEN wire \o ServerReplies(ncalls + 1, 1, IF err THEN {0} ELSE {})
                        ELSE wire
                r == read_response(sent, fail)
            IN  /\ (fail = "ok") => sent # <<>>
                /\ wire' = r.wire
                /\ last' = [kind |-> "cmd", id |-> ncalls + 1, offset |-> 0, count |-> 1,
                            written |-> (w = "ok"), stale |-> Len(wire), got |-> <<r.resp>>,
                            res |-> IF IsOk(r.resp)
                                    THEN [ok |-> TRUE, vals |-> <<r.resp>>, err |-> None]
                                    ELSE [ok |-> FALSE, vals |-> <<>>, err |-> Some(r.resp)]]
    /\ prev' = Summary(last)
    /\ UNCHANGED <<ppc, cur>>
    /\ UNCHANGED txVars
    /\ UNCHANGED psVars
    /\ UNCHANGED coVars
    /\ UNCHANGED inVars

PipeNext ==
    \/ \E offset \in 0..MaxOffset, count \in 0..MaxCount, w \in {"ok"} \cup FailKinds :
         \E errs \in SUBSET (0..(offset + count - 1)) : PipeSend(offset, count, errs, w)
    \/ \E offset \in 0..MaxOffset, count \in 0..MaxCount, k \in FailKinds :
         PipeSendFails(offset, count, k)
    \/ \E fail \in {"ok"} \cup ReadFailKinds : PipeRead(fail)
    \/ PipeReturn
    \/ \E w \in {"ok"} \cup FailKinds, err \in BOOLEAN, fail \in {"ok"} \cup ReadFailKinds :
         /\ (w # "ok") => (~err /\ fail = "ok")
         /\ ReqPackedCommand(w, err, fail)

SpecPipe == PipeInit /\ [][PipeNext]_vars

(* ------------------------------------------------------------ the server *)

\* Two clients run transaction(), each on a connection of its own; a third
\* party (Mutate) writes the key outside any transaction.
Clients == {1, 2}
\* Values key K may hold when the clients start.
InitialK == {0, 5}

\* Value (types.rs)
Nil == [t |-> "Nil", x |-> <<>>]
Okay == [t |-> "Okay", x |-> <<>>]
Status(str) == [t |-> "Status", x |-> <<str>>]
\* Data holding the decimal text of n (the reply to GET of an integer key).
Data(n) == [t |-> "Data", x |-> <<n>>]
Bulk(items) == [t |-> "Bulk", x |-> items]
Reply(v) == [kind |-> "val", v |-> v]

\* A write to K: every client watching K is flagged.
Touch(w) == [c \in Clients |-> [w[c] EXCEPT !.dirty = w[c].on]]
\* WATCH K by client c.
SrvWatch(w, c) == [w EXCEPT ![c].on = TRUE]
\* UNWATCH by client c, and the end of every EXEC.
SrvUnwatch(w, c) == [w EXCEPT ![c] = [on |-> FALSE, dirty |-> FALSE]]

\* The queued commands run one after the other on [store, watch, out].
RECURSIVE SrvRun(_, _)
SrvRun(cmds, st) ==
    IF cmds = <<>> THEN st
    ELSE LET cmd == Head(cmds) IN
         SrvRun(Tail(cmds),
                IF cmd.op = "SET"
                THEN [store |-> cmd.arg, watch |-> Touch(st.watch),
                      nset |-> st.nset + 1, out |-> Append(st.out, Okay)]
                ELSE [st EXCEPT !.out = Append(st.out, Data(st.store))])

\* MULTI, the commands, EXEC from client c: aborted with a Nil reply when a
\* watched key was touched, run atomically otherwise; the watches are dropped.
SrvExec(k, w, c, cmds) ==
    LET st == IF w[c].dirty THEN [store |-> k, watch |-> w, nset |-> 0, out |-> <<>>]
              ELSE SrvRun(cmds, [store |-> k, watch |-> w, nset |-> 0, out |-> <<>>])
        queued == [i \in 1..Len(cmds) |-> Reply(Status("QUEUED"))]
    IN  [store |-> st.store,
         watch |-> SrvUnwatch(st.watch, c),
         nset |-> st.nset,
         committed |-> ~w[c].dirty,
         replies |-> <<Reply(Okay)>> \o queued
                     \o <<Reply(IF w[c].dirty THEN Nil ELSE Bulk(st.out))>>]

(* ------------------------------------------------- Pipeline, transaction *)

\* req_packed_commands run to its return on the replies w; the reads whose
\* index is in failAt time out.
\* (The locals after an iteration are bound through a one-element set, so
\* that they are evaluated once per iteration.)
Only(S) == CHOOSE x \in S : TRUE
RECURSIVE RunLoop(_, _, _)
RunLoop(c, w, failAt) ==
    IF KeepReading(c.idx, c.offset, c.count, c.first_err)
    THEN Only({RunLoop(s.c, s.wire, failAt) :
                  s \in {LET r == read_response(w, IF c.idx \in failAt THEN "TimedOut" ELSE "ok")
                         IN  [c |-> LoopBody(c, r.resp), wire |-> r.wire]}})
    ELSE MapOr(c.rv, c.first_err)

req_packed_commands(w, offset, count, failAt) ==
    RunLoop([NoCur EXCEPT !.offset = offset, !.count = count], w, failAt)

\* pipe(): an empty pipeline, not atomic.
NewPipeline == [atomic |-> FALSE, cmds |-> <<>>]
\* Pipeline::atomic
Atomic(p) == [p EXCEPT !.atomic = TRUE]
\* transaction(): let mut p = pipe(); with p the pipeline of the last attempt.
\* (pipe_reused: the faulty variant that keeps the pipeline across attempts.)
pipe_reused(p) == p
pipe_new(p) == NewPipeline

\* The step function of examples/pipeline_transaction.rs, after its GET:
\* pipe.set(key, old_val + 1).ignore().get(key)
Stage(p, old_val) ==
    [p EXCEPT !.cmds = p.cmds \o <<[op |-> "SET", arg |-> old_val + 1, ignore |-> TRUE],
                                   [op |-> "GET", arg |-> 0, ignore |-> FALSE]>>]

\* Pipeline::query on an atomic pipeline, from the result of
\* req_packed_commands(MULTI .. EXEC, len + 1, 1): the EXEC reply is Nil
\* (no result) or the replies of the commands not marked ignore.
PipelineResult(p, res) ==
    LET v == res.vals[1].v IN
    IF v.t = "Nil" THEN None
    ELSE Some([j \in 1..Cardinality({i \in 1..Len(p.cmds) : ~p.cmds[i].ignore}) |->
                 LET i == CHOOSE i \in 1..Len(p.cmds) :
                            /\ ~p.cmds[i].ignore
                            /\ Cardinality({h \in 1..i : ~p.cmds[h].ignore}) = j
                 IN  v.x[i].x[1]])

\* transaction(): match response { None => continue, Some(..) => UNWATCH .. }
\* (Faulty variants: retry without WATCH, return without UNWATCH, give up
\* after an aborted attempt.)
AfterStepNoRewatch(response) ==
    IF response = None THEN "step" ELSE "unwatch"
AfterStepNoUnwatch(response) ==
    IF response = None THEN "watch" ELSE "done"
AfterStepGiveUp(response) ==
    IF response = None THEN "failed" ELSE "unwatch"
AfterStep(response) ==
    IF response = None THEN "watch" ELSE "unwatch"

\* transaction(): the `?` after WATCH, func and UNWATCH returns the error.
\* (OnErrorRetry: the faulty variant that retries after an error.)
OnErrorRetry == "watch"
OnError == "failed"

\* Outcomes of one command's round trip: answered; the write fails (the
\* server never sees the command); the server answers with an error frame
\* (the command has no effect); the read of the reply fails.
Outcomes == {"ok", "wfail", "serr", "rfail"}
Delivered(out) == out \in {"ok", "rfail"}

NoHist == [nWatch |-> 0, nStep |-> 0, nUnwatch |-> 0, nErr |-> 0, aborts |-> 0,
           lastCmd |-> "none", preStep |-> "none", errCmd |-> "none",
           watchVer |-> 0, execVer |-> 0, outcome |-> "none"]

TxInit ==
    /\ open = TRUE
    /\ wire = <<>>
    /\ ppc = "idle"
    /\ cur = NoCur
    /\ last = NoCall
    /\ prev = Summary(NoCall)
    /\ ncalls = 0
    /\ iofails = 0
    /\ store \in InitialK
    /\ watch = [c \in Clients |-> [on |-> FALSE, dirty |-> FALSE]]
    /\ tx = [c \in Clients |-> [pc |-> "watch", old_val |-> 0, p |-> NewPipeline,
                                response |-> None, result |-> None]]
    /\ hist = [c \in Clients |-> NoHist]
    /\ env = [k0 |-> store, ver |-> 0, muts |-> 0, fails |-> 0]
    /\ subs = <<>>
    /\ subscribed_topics = <<>>
    /\ subscribed_patterns = <<>>
    /\ ps = "none"
    /\ pslast = <<>>
    /\ received = <<>>
    /\ budget = <<>>
    /\ lv = <<>>
    /\ cn = <<>>
    /\ hs = <<>>
    /\ sock = <<>>
    /\ cmp = <<>>
    /\ url = <<>>
    /\ dial = <<>>
    /\ dec = <<>>

\* Bookkeeping shared by the client actions: command cmd was issued by c with
\* outcome out; h is c's history after it when it succeeded.
Issued(c, cmd, out, h) ==
    /\ (out # "ok") => env.fails < MaxIoFail
    /\ hist' = [hist EXCEPT ![c] =
                  IF out = "ok" THEN [h EXCEPT !.lastCmd = cmd]
                  ELSE [h EXCEPT !.lastCmd = cmd, !.nErr = @ + 1, !.errCmd = cmd]]

Fails(out) == IF out = "ok" THEN env.fails ELSE env.fails + 1

\* transaction(): cmd("WATCH").arg(keys).query::<()>(con)?
TxWatch(c, out) ==
    /\ tx[c].pc = "watch"
    /\ Issued(c, "WATCH", out,
              [hist[c] EXCEPT !.nWatch = @ + 1, !.watchVer = env.ver])
    /\ watch' = IF Delivered(out) THEN SrvWatch(watch, c) ELSE watch
    /\ tx' = [tx EXCEPT ![c].pc = IF out = "ok" THEN "step" ELSE OnError]
    /\ env' = [env EXCEPT !.fails = Fails(out)]
    /\ UNCHANGED store
    /\ UNCHANGED pipeVars
    /\ UNCHANGED psVars
    /\ UNCHANGED coVars
    /\ UNCHANGED inVars

\* transaction(): let mut p = pipe(); func(con, p.atomic()) up to the point
\* where the step function has read the key and staged its commands.
TxStepGet(c, out) ==
    /\ tx[c].pc = "step"
    /\ Issued(c, "GET", out,
              [hist[c] EXCEPT !.nStep = @ + 1, !.preStep = hist[c].lastCmd])
    /\ tx' = [tx EXCEPT ![c] =
                IF out = "ok"
                THEN [@ EXCEPT !.pc = "exec", !.old_val = store,
                               !.p = Stage(Atomic(pipe_new(tx[c].p)), store)]
                ELSE [@ EXCEPT !.pc = OnError, !.p = Atomic(pipe_new(tx[c].p))]]
    /\ env' = [env EXCEPT !.fails = Fails(out)]
    /\ UNCHANGED <<store, watch>>
    /\ UNCHANGED pipeVars
    /\ UNCHANGED psVars
    /\ UNCHANGED coVars
    /\ UNCHANGED inVars

\* The step function ends with .query(con) on the pipeline, and
\* transaction() matches on what it returned.
TxStepQuery(c, out) ==
    /\ tx[c].pc = "exec"
    /\ \E srv \in {SrvExec(store, watch, c, tx[c].p.cmds)} :
       \E res \in {req_packed_commands(srv.replies, Len(tx[c].p.cmds) + 1, 1,
                                       IF out = "rfail" THEN {Len(tx[c].p.cmds) + 1} ELSE {})} :
       \E response \in {IF res.ok THEN PipelineResult(tx[c].p, res) ELSE None} :
           /\ Issued(c, "EXEC", out,
                     [hist[c] EXCEPT !.execVer = env.ver,
                                     !.outcome = IF srv.committed THEN "commit" ELSE "abort",
                                     !.aborts = IF srv.committed THEN @ ELSE @ + 1])
           /\ store' = IF Delivered(out) THEN srv.store ELSE store
           /\ watch' = IF Delivered(out) THEN srv.watch ELSE watch
           /\ env' = [env EXCEPT !.fails = Fails(out),
                                 !.ver = IF Delivered(out) THEN @ + srv.nset ELSE @]
           /\ tx' = [tx EXCEPT ![c] =
                       IF out = "ok"
                       THEN [@ EXCEPT !.response = response, !.pc = AfterStep(response)]
                       ELSE [@ EXCEPT !.pc = OnError]]
    /\ UNCHANGED pipeVars
    /\ UNCHANGED psVars
    /\ UNCHANGED coVars
    /\ UNCHANGED inVars

\* A step function that returns a result without executing the pipeline.
TxStepNoQuery(c) ==
    /\ tx[c].pc = "exec"
    /\ LET response == Some(<<tx[c].old_val>>) IN
         tx' = [tx EXCEPT ![c].response = response, ![c].pc = AfterStep(response)]
    /\ hist' = [hist EXCEPT ![c].outcome = "skip"]
    /\ UNCHANGED <<store, watch, env>>
    /\ UNCHANGED pipeVars
    /\ UNCHANGED psVars
    /\ UNCHANGED coVars
    /\ UNCHANGED inVars

\* transaction(): cmd("UNWATCH").query::<()>(con)?; return Ok(response)
TxUnwatch(c, out) ==
    /\ tx[c].pc = "unwatch"
    /\ Issued(c, "UNWATCH", out, [hist[c] EXCEPT !.nUnwatch = @ + 1])
    /\ watch' = IF Delivered(out) THEN SrvUnwatch(watch, c) ELSE watch
    /\ tx' = [tx EXCEPT ![c] =
                IF out = "ok" THEN [@ EXCEPT !.pc = "done", !.result = tx[c].response]
                ELSE [@ EXCEPT !.pc = OnError]]
    /\ env' = [env EXCEPT !.fails = Fails(out)]
    /\ UNCHANGED store
    /\ UNCHANGED pipeVars
    /\ UNCHANGED psVars
    /\ UNCHANGED coVars
    /\ UNCHANGED inVars

\* Another client increments K outside any transaction.
Mutate ==
    /\ env.muts < MaxMut
    /\ store' = store + 1
    /\ watch' = Touch(watch)
    /\ env' = [env EXCEPT !.muts = @ + 1, !.ver = @ + 1]
    /\ UNCHANGED <<tx, hist>>
    /\ UNCHANGED pipeVars
    /\ UNCHANGED psVars
    /\ UNCHANGED coVars
    /\ UNCHANGED inVars

TxClient(c) ==
    \/ \E out \in Outcomes : TxWatch(c, out)
    \/ \E out \in Outcomes : TxStepGet(c, out)
    \/ \E out \in Outcomes : TxStepQuery(c, out)
    \/ TxStepNoQuery(c)
    \/ \E out \in Outcomes : TxUnwatch(c, out)

TxNext ==
    \/ \E c \in Clients : TxClient(c)
    \/ Mutate

SpecTx == TxInit /\ [][TxNext]_vars

\* Every client is a running process: a call that can proceed does.
SpecTxFair == TxInit /\ [][TxNext]_vars /\ \A c \in Clients : WF_vars(TxClient(c))

(* ------------------------------------------------- the pub/sub server side *)

\* Channels a publisher writes to, the topics and the patterns a session
\* may ask for, and the payloads published.
Channels == {"hello", "world"}
Topics == {"hello", "world", "wurld"}
Patterns == {"w*rld"}
Payloads == {"banana"}
\* Glob matching of the server, on the names above.
Matches(pattern, channel) ==
    pattern = "w*rld" /\ channel \in {"world", "wurld"}

\* Value::Int
IntV(n) == [t |-> "Int", x |-> <<n>>]

\* The frames a connection in subscribe mode is sent: confirmations
\* [kind, name, remaining subscriptions] and published messages.
ConfirmationFrame(kind, name, n) == Bulk(<<Data(kind), name, IntV(n)>>)
MessageFrame(channel, payload) ==
    Bulk(<<Data("message"), Data(channel), Data(payload)>>)
PMessageFrame(pattern, channel, payload) ==
    Bulk(<<Data("pmessage"), Data(pattern), Data(channel), Data(payload)>>)

NoSubs == [topics |-> {}, patterns |-> {}]
SubCount(s) == Cardinality(s.topics) + Cardinality(s.patterns)
Family(cmd) == IF cmd \in {"SUBSCRIBE", "UNSUBSCRIBE"} THEN "topics" ELSE "patterns"
Kind(cmd) ==
    CASE cmd = "SUBSCRIBE" -> "subscribe"
      [] cmd = "PSUBSCRIBE" -> "psubscribe"
      [] cmd = "UNSUBSCRIBE" -> "unsubscribe"
      [] cmd = "PUNSUBSCRIBE" -> "punsubscribe"

\* UNSUBSCRIBE / PUNSUBSCRIBE without a name: one confirmation per name held.
RECURSIVE SrvDropAll(_, _, _)
SrvDropAll(s, cmd, out) ==
    IF s[Family(cmd)] = {} THEN [subs |-> s, out |-> out]
    ELSE LET name == CHOOSE n \in s[Family(cmd)] : TRUE
             t == [s EXCEPT ![Family(cmd)] = @ \ {name}]
         IN  SrvDropAll(t, cmd,
                        Append(out, ConfirmationFrame(Kind(cmd), Data(name), SubCount(t))))

\* The server executes one subscription command of the connection: arg is
\* Some(name) or None; the result is its subscriptions and the frames it sends.
SrvCommand(s, cmd, arg) ==
    IF cmd \in {"SUBSCRIBE", "PSUBSCRIBE"}
    THEN LET t == [s EXCEPT ![Family(cmd)] = @ \cup {arg[1]}]
         IN  [subs |-> t,
              out |-> <<ConfirmationFrame(Kind(cmd), Data(arg[1]), SubCount(t))>>]
    ELSE IF arg # None
    THEN LET t == [s EXCEPT ![Family(cmd)] = @ \ {arg[1]}]
         IN  [subs |-> t,
              out |-> <<ConfirmationFrame(Kind(cmd), Data(arg[1]), SubCount(t))>>]
    ELSE IF s[Family(cmd)] = {}
    THEN [subs |-> s, out |-> <<ConfirmationFrame(Kind(cmd), Nil, SubCount(s))>>]
    ELSE SrvDropAll(s, cmd, <<>>)

\* PUBLISH channel payload by another connection: what this one is sent, the
\* message frame first and then one pmessage frame per matching pattern.
RECURSIVE PatternFrames(_, _, _)
PatternFrames(pats, channel, payload) ==
    IF pats = {} THEN <<>>
    ELSE LET p == CHOOSE q \in pats : TRUE
         IN  <<PMessageFrame(p, channel, payload)>>
                 \o PatternFrames(pats \ {p}, channel, payload)
SrvPublish(s, channel, payload) ==
    (IF channel \in s.topics THEN <<MessageFrame(channel, payload)>> ELSE <<>>)
        \o PatternFrames({p \in s.patterns : Matches(p, channel)}, channel, payload)

(* ------------------------------------------------ decoding (types.rs) *)

\* Bytes that are not UTF-8, and std::str::from_utf8 on the texts used here.
InvalidUtf8 == "\\xff"
from_utf8(bytes) == IF bytes = InvalidUtf8 THEN None ELSE Some(bytes)

\* from_redis_value::<String>
from_redis_value_String(v) ==
    IF v.t = "Data" THEN from_utf8(v.x[1])
    ELSE IF v.t = "Status" THEN Some(v.x[1])
    ELSE IF v.t = "Okay" THEN Some("OK")
    ELSE None

\* from_redis_value::<Vec<Value>>: Data is vector compatible for u8 only.
from_redis_value_Vec(v) ==
    IF v.t = "Bulk" THEN Some(v.x)
    ELSE IF v.t = "Nil" THEN Some(<<>>)
    ELSE None

\* str::parse::<isize> on the texts the frames here carry.
ParseInt(str) == IF str = "0" THEN Some(0) ELSE None

\* from_redis_value::<isize>
from_redis_value_isize(v) ==
    IF v.t = "Int" THEN Some(v.x[1])
    ELSE IF v.t \in {"Status", "Data"} THEN ParseInt(v.x[1])
    ELSE None

\* from_redis_value::<Vec<u8>>, as the first byte of the result: "" when the
\* vector is empty. The first element of every frame here is Data or Nil.
FirstByte(str) ==
    CASE str = "unsubscribe" -> "u"
      [] str \in {"punsubscribe", "psubscribe", "pmessage"} -> "p"
      [] str = "subscribe" -> "s"
      [] str = "message" -> "m"
      [] OTHER -> "?"
from_redis_value_bytes_first(v) ==
    IF v.t = "Data" THEN Some(FirstByte(v.x[1]))
    ELSE IF v.t = "Nil" THEN Some("")
    ELSE None

\* from_redis_value::<(Vec<u8>, (), isize)>: a Bulk of exactly three items,
\* the second of which may be anything.
from_redis_value_tuple(v) ==
    IF v.t # "Bulk" \/ Len(v.x) # 3 THEN None
    ELSE LET first == from_redis_value_bytes_first(v.x[1])
             n == from_redis_value_isize(v.x[3])
         IN  IF first = None \/ n = None THEN None
             ELSE Some([first |-> first[1], count |-> n[1]])

\* Confirmation::check_confirmation
check_confirmation(value) ==
    LET raw_msg == from_redis_value_Vec(value) IN
    IF raw_msg = None \/ Len(raw_msg[1]) < 1 THEN None
    ELSE LET msg_type == from_redis_value_String(raw_msg[1][1]) IN
         IF msg_type = None THEN None
         ELSE IF msg_type[1] \notin {"unsubscribe", "punsubscribe", "subscribe", "psubscribe"}
         THEN None
         ELSE IF Len(raw_msg[1]) < 2 THEN None
         ELSE LET matching == from_redis_value_String(raw_msg[1][2]) IN
              IF matching = None THEN None
              ELSE Some([kind |-> msg_type[1], name |-> matching[1]])

\* Msg::from_value
\* (from_value_no_pattern: the faulty variant that drops the pattern.)
from_value_no_pattern(value) ==
    LET raw_msg == from_redis_value_Vec(value) IN
    IF raw_msg = None \/ Len(raw_msg[1]) < 3 THEN None
    ELSE LET n == Len(raw_msg[1])
         IN  Some([payload |-> raw_msg[1][n], channel |-> raw_msg[1][n - 1],
                   pattern |-> None])
from_value(value) ==
    LET raw_msg == from_redis_value_Vec(value) IN
    IF raw_msg = None \/ Len(raw_msg[1]) < 1 THEN None
    ELSE LET items == raw_msg[1]
             msg_type == from_redis_value_String(items[1])
         IN  IF msg_type = None THEN None
             ELSE IF msg_type[1] = "message"
             THEN IF Len(items) < 3 THEN None
                  ELSE Some([payload |-> items[3], channel |-> items[2], pattern |-> None])
             ELSE IF msg_type[1] = "pmessage"
             THEN IF Len(items) < 4 THEN None
                  ELSE Some([payload |-> items[4], channel |-> items[3],
                             pattern |-> Some(items[2])])
             ELSE None

(* ------------------------------------------------ RedisPubSub (pubsub.rs) *)

\* Subscription calls and publishes one behaviour makes.
MaxSubCalls == 4
MaxSessionCalls == 2
MaxPublish == 3

TypeError == [call |-> 0, idx |-> 0, kind |-> "type", io |-> "none"]

\* cmd(..).arg(name).query::<()>(&mut self.connection), which is
\* req_packed_command: send_bytes(cmd)?; read_response(). The server executes
\* the command once it is written; every reply decodes to (). w and r are the
\* outcomes of the write and of the read.
query_unit(o, wi, s, cmd, name, w, r) ==
    IF w # "ok"
    THEN [ok |-> FALSE, err |-> Some(IoError(w)), open |-> send_bytes_open(o, w),
          wire |-> wi, subs |-> s, log |-> <<>>, reads |-> <<>>]
    ELSE LET x == SrvCommand(s, cmd, Some(name))
             rd == read_response(wi \o x.out, r)
         IN  [ok |-> r = "ok",
              err |-> IF r = "ok" THEN None ELSE Some(rd.resp),
              open |-> read_response_open(send_bytes_open(o, w), r),
              wire |-> rd.wire, subs |-> x.subs, log |-> <<cmd, "read">>,
              reads |-> IF r = "ok" THEN <<rd.resp>> ELSE <<>>]

\* subscribe / psubscribe, the match on the query's result:
\* Err(e) => Err(e), Ok(_) => { self.subscribed_*.push(s); Ok(()) }
\* (push_always: the faulty variant that tracks the name before it is known
\* that the call succeeded.)
push_always(v, s, ok) ==
    Append(v, s)
\* (push_if_absent: the faulty variant that keeps the collection a set.)
push_if_absent(v, s, ok) ==
    IF ok /\ \A i \in DOMAIN v : v[i] # s THEN Append(v, s) ELSE v
push_on_ok(v, s, ok) ==
    IF ok THEN Append(v, s) ELSE v

\* unsubscribe / punsubscribe, the match on the query's result:
\* Err(e) => Err(e), Ok(_) => { self.subscribed_*.retain(|t| *t != s); Ok(()) }
\* (remove_first_on_ok: the faulty variant that removes one occurrence only.)
RECURSIVE RemoveFirst(_, _)
RemoveFirst(v, s) ==
    IF v = <<>> THEN v
    ELSE IF Head(v) = s THEN Tail(v)
    ELSE <<Head(v)>> \o RemoveFirst(Tail(v), s)
remove_first_on_ok(v, s, ok) ==
    IF ok THEN RemoveFirst(v, s) ELSE v
retain_on_ok(v, s, ok) ==
    IF ok THEN SelectSeq(v, LAMBDA t : t # s) ELSE v

\* had: was the name of a subscription call tracked when the call was made.
NoPsCall == [op |-> "none", arg |-> "", ok |-> TRUE, err |-> None, log |-> <<>>,
             reads |-> <<>>, had |-> FALSE]

\* What a session call leaves in pslast.
PsCall(op, arg, q) ==
    [op |-> op, arg |-> arg, ok |-> q.ok, err |-> q.err, log |-> q.log,
     reads |-> q.reads,
     had |-> \/ \E i \in DOMAIN subscribed_topics : subscribed_topics[i] = arg
             \/ \E i \in DOMAIN subscribed_patterns : subscribed_patterns[i] = arg]

\* A connection handed to as_pubsub() may still hold the unread reply of a
\* request whose read failed.
PsInit ==
    /\ open = TRUE
    /\ wire \in {<<>>, <<Okay>>}
    /\ ppc = "idle"
    /\ cur = NoCur
    /\ last = NoCall
    /\ prev = Summary(NoCall)
    /\ ncalls = 0
    /\ iofails = 0
    /\ store = 0
    /\ watch = <<>>
    /\ tx = <<>>
    /\ hist = <<>>
    /\ env = <<>>
    /\ subs = NoSubs
    /\ subscribed_topics = <<>>
    /\ subscribed_patterns = <<>>
    /\ ps = "session"
    /\ pslast = NoPsCall
    /\ received = <<>>
    /\ budget = [calls |-> 0, pubs |-> 0, sent |-> <<>>]
    /\ lv = <<>>
    /\ cn = <<>>
    /\ hs = <<>>
    /\ sock = <<>>
    /\ cmp = <<>>
    /\ url = <<>>
    /\ dial = <<>>
    /\ dec = <<>>

\* Bookkeeping shared by the four subscription calls.
PsQuery(op, cmd, name, w, r, q) ==
    /\ ps = "session"
    /\ (w # "ok") => r = "ok"
    /\ (w # "ok" \/ r # "ok") => iofails < MaxIoFail
    /\ iofails' = IF w # "ok" \/ r # "ok" THEN iofails + 1 ELSE iofails
    /\ budget' = [budget EXCEPT !.calls = @ + 1]
    /\ open' = q.open
    /\ wire' = q.wire
    /\ subs' = q.subs
    /\ pslast' = PsCall(op, name, q)
    /\ UNCHANGED <<ps, received>>
    /\ UNCHANGED <<ppc, cur, last, prev, ncalls>>
    /\ UNCHANGED txVars
    /\ UNCHANGED coVars
    /\ UNCHANGED inVars

Subscribe(topic, w, r) ==
    \E q \in {query_unit(open, wire, subs, "SUBSCRIBE", topic, w, r)} :
        /\ PsQuery("subscribe", "SUBSCRIBE", topic, w, r, q)
        /\ subscribed_topics' = push_on_ok(subscribed_topics, topic, q.ok)
        /\ UNCHANGED subscribed_patterns

PSubscribe(pattern, w, r) ==
    \E q \in {query_unit(open, wire, subs, "PSUBSCRIBE", pattern, w, r)} :
        /\ PsQuery("psubscribe", "PSUBSCRIBE", pattern, w, r, q)
        /\ subscribed_patterns' = push_on_ok(subscribed_patterns, pattern, q.ok)
        /\ UNCHANGED subscribed_topics

Unsubscribe(topic, w, r) ==
    \E q \in {query_unit(open, wire, subs, "UNSUBSCRIBE", topic, w, r)} :
        /\ PsQuery("unsubscribe", "UNSUBSCRIBE", topic, w, r, q)
        /\ subscribed_topics' = retain_on_ok(subscribed_topics, topic, q.ok)
        /\ UNCHANGED subscribed_patterns

PUnsubscribe(pattern, w, r) ==
    \E q \in {query_unit(open, wire, subs, "PUNSUBSCRIBE", pattern, w, r)} :
        /\ PsQuery("punsubscribe", "PUNSUBSCRIBE", pattern, w, r, q)
        /\ subscribed_patterns' = retain_on_ok(subscribed_patterns, pattern, q.ok)
        /\ UNCHANGED subscribed_topics

\* Another connection publishes payload to channel.
Publish(channel, payload) ==
    /\ ps = "session"
    /\ budget.pubs < MaxPublish
    /\ SrvPublish(subs, channel, payload) # <<>>
    /\ wire' = wire \o SrvPublish(subs, channel, payload)
    /\ budget' = [budget EXCEPT !.pubs = @ + 1,
                                !.sent = @ \o SrvPublish(subs, channel, payload)]
    /\ UNCHANGED <<open, iofails, subs, subscribed_topics, subscribed_patterns,
                   ps, pslast, received>>
    /\ UNCHANGED <<ppc, cur, last, prev, ncalls>>
    /\ UNCHANGED txVars
    /\ UNCHANGED coVars
    /\ UNCHANGED inVars

\* receive(), `match Confirmation::check_confirmation(&polled)`: Some(_) =>
\* continue, None => break polled.
\* (skip_nothing: the faulty variant that never skips a frame.)
skip_nothing(polled) ==
    FALSE
skip_confirmation(polled) ==
    check_confirmation(polled) # None

\* receive(): reads frames off w until one is not a confirmation and parses
\* that one as a Msg. reads holds the frames read so far; the read number
\* failAt (from 0) fails with r; a read on an empty stream blocks.
RECURSIVE receive(_, _, _, _)
receive(w, reads, failAt, r) ==
    IF Len(reads) = failAt
    THEN [st |-> "err", err |-> Some(IoError(r)), wire |-> w, reads |-> reads,
          msg |-> None]
    ELSE IF w = <<>>
    THEN [st |-> "blocked", err |-> None, wire |-> w, reads |-> reads, msg |-> None]
    ELSE LET rd == read_response(w, "ok") IN
         IF skip_confirmation(rd.resp)
         THEN receive(rd.wire, Append(reads, rd.resp), failAt, r)
         ELSE LET m == from_value(rd.resp) IN
              [st |-> IF m # None THEN "ok" ELSE "err",
               err |-> IF m # None THEN None ELSE Some(TypeError),
               wire |-> rd.wire, reads |-> Append(reads, rd.resp), msg |-> m]

\* clear_active_subscriptions, the two writes:
\* send_bytes(&unsubscribe)?; send_bytes(&punsubscribe)?;
\* w1 and w2 are the outcomes the writes have when they are made.
\* (send_both_unchecked: the faulty variant that ignores the writes' results.)
send_both_unchecked(w1, w2) ==
    [sent |-> (IF w1 = "ok" THEN <<"UNSUBSCRIBE">> ELSE <<>>)
                \o (IF w2 = "ok" THEN <<"PUNSUBSCRIBE">> ELSE <<>>),
     failed |-> {w1, w2} \ {"ok"},
     err |-> None]
send_both(w1, w2) ==
    IF w1 # "ok" THEN [sent |-> <<>>, failed |-> {w1}, err |-> Some(IoError(w1))]
    ELSE IF w2 # "ok"
    THEN [sent |-> <<"UNSUBSCRIBE">>, failed |-> {w2}, err |-> Some(IoError(w2))]
    ELSE [sent |-> <<"UNSUBSCRIBE", "PUNSUBSCRIBE">>, failed |-> {}, err |-> None]

\* clear_active_subscriptions, the test that ends the loop:
\* if received_unsub && received_punsub && res.2 == 0 { break; }
\* (drain_stop_either: the faulty variant with || between the two flags.)
drain_stop_either(received_unsub, received_punsub, count) ==
    (received_unsub \/ received_punsub) /\ count = 0
drain_stop(received_unsub, received_punsub, count) ==
    received_unsub /\ received_punsub /\ count = 0

\* clear_active_subscriptions, the `?` of from_redis_value(..)?: a frame that
\* does not decode as (Vec<u8>, (), isize) ends the call with the error.
\* (decode_failure_skipped: the variant that goes on to the next frame.)
decode_failure_skipped(res) ==
    FALSE
decode_failure_returns(res) ==
    res = None

\* clear_active_subscriptions, the loop: every frame is decoded as
\* (Vec<u8>, (), isize) and its first byte sets one of the two flags.
RECURSIVE drain(_, _, _, _, _, _)
drain(w, received_unsub, received_punsub, reads, failAt, r) ==
    IF Len(reads) = failAt
    THEN [st |-> "err", err |-> Some(IoError(r)), wire |-> w, reads |-> reads]
    ELSE IF w = <<>>
    THEN [st |-> "blocked", err |-> None, wire |-> w, reads |-> reads]
    ELSE LET rd == read_response(w, "ok")
             res == from_redis_value_tuple(rd.resp)
         IN  IF decode_failure_returns(res)
             THEN [st |-> "err", err |-> Some(TypeError), wire |-> rd.wire,
                   reads |-> Append(reads, rd.resp)]
             ELSE IF res = None
             THEN drain(rd.wire, received_unsub, received_punsub,
                        Append(reads, rd.resp), failAt, r)
             ELSE LET u == received_unsub \/ res[1].first = "u"
                      p == received_punsub \/ res[1].first = "p"
                  IN  IF drain_stop(u, p, res[1].count)
                      THEN [st |-> "ok", err |-> None, wire |-> rd.wire,
                            reads |-> Append(reads, rd.resp)]
                      ELSE drain(rd.wire, u, p, Append(reads, rd.resp), failAt, r)

\* The server executes the commands written, in order; mid is what another
\* connection publishes between the two, None or Some(<<channel, payload>>).
RECURSIVE SrvCommands(_, _, _)
SrvCommands(s, sent, mid) ==
    IF sent = <<>> THEN [subs |-> s, out |-> <<>>]
    ELSE LET x == SrvCommand(s, Head(sent), None)
             pub == IF mid = None THEN <<>> ELSE SrvPublish(x.subs, mid[1][1], mid[1][2])
             rest == SrvCommands(x.subs, Tail(sent), None)
         IN  [subs |-> rest.subs, out |-> x.out \o pub \o rest.out]

\* clear_active_subscriptions as a whole. log lists the commands written and
\* the reads made, in the order the code makes them.
clear_active_subscriptions(o, wi, s, w1, w2, mid, failAt, r) ==
    LET wr == send_both(w1, w2)
        o1 == IF w1 # "ok" THEN send_bytes_open(o, w1) ELSE send_bytes_open(o, w2)
        x == SrvCommands(s, wr.sent, mid)
    IN  IF wr.err # None
        THEN [st |-> "err", err |-> wr.err, open |-> o1, wire |-> wi \o x.out,
              subs |-> x.subs, log |-> wr.sent, reads |-> <<>>, failed |-> wr.failed]
        ELSE LET l == drain(wi \o x.out, FALSE, FALSE, <<>>, failAt, r)
                 nreads == Len(l.reads)
                            + (IF l.err # None /\ l.err[1].kind = "io" THEN 1 ELSE 0)
             IN  [st |-> l.st, err |-> l.err,
                  open |-> IF l.err # None /\ l.err[1].kind = "io"
                           THEN read_response_open(o1, r) ELSE o1,
                  wire |-> l.wire, subs |-> x.subs,
                  log |-> wr.sent \o [i \in 1..nreads |-> "read"],
                  reads |-> l.reads, failed |-> wr.failed]

Receive(failAt, r) ==
    /\ ps = "session"
    /\ \E x \in {receive(wire, <<>>, failAt, r)} :
         /\ x.st # "blocked"
         /\ IF failAt >= 0
            THEN /\ x.err = Some(IoError(r))
                 /\ iofails < MaxIoFail
                 /\ iofails' = iofails + 1
                 /\ open' = read_response_open(open, r)
            ELSE /\ r = "ok"
                 /\ UNCHANGED <<iofails, open>>
         /\ wire' = x.wire
         /\ received' = IF x.st = "ok" THEN Append(received, x.msg[1]) ELSE received
         /\ pslast' = [op |-> "receive", arg |-> "", ok |-> x.st = "ok", err |-> x.err,
                       log |-> [i \in 1..(Len(x.reads) + (IF failAt >= 0 THEN 1 ELSE 0))
                                  |-> "read"],
                       reads |-> x.reads, had |-> FALSE]
    /\ UNCHANGED <<subs, subscribed_topics, subscribed_patterns, ps, budget>>
    /\ UNCHANGED <<ppc, cur, last, prev, ncalls>>
    /\ UNCHANGED txVars
    /\ UNCHANGED coVars
    /\ UNCHANGED inVars

\* exit_pubsub(): self.clear_active_subscriptions()?; Ok(self.connection).
\* The session is consumed: on Ok the connection is back with its caller, on
\* Err it is dropped.
ExitPubsub(w1, w2, mid, failAt, r) ==
    /\ ps = "session"
    /\ (w1 # "ok") => (w2 = "ok" /\ mid = None)
    /\ (w1 # "ok" \/ w2 # "ok") => failAt = -1
    /\ (failAt = -1) <=> (r = "ok")
    /\ (mid # None) => /\ budget.pubs < MaxPublish
                       /\ SrvPublish(SrvCommand(subs, "UNSUBSCRIBE", None).subs,
                                     mid[1][1], mid[1][2]) # <<>>
    /\ budget' = IF mid = None THEN budget
                 ELSE [budget EXCEPT
                         !.pubs = @ + 1,
                         !.sent = @ \o SrvPublish(SrvCommand(subs, "UNSUBSCRIBE", None).subs,
                                                  mid[1][1], mid[1][2])]
    /\ \E x \in {clear_active_subscriptions(open, wire, subs, w1, w2, mid, failAt, r)} :
         /\ (failAt >= 0) => x.err = Some(IoError(r))
         /\ (x.failed # {} \/ failAt >= 0) => iofails < MaxIoFail
         /\ iofails' = IF x.failed # {} \/ failAt >= 0 THEN iofails + 1 ELSE iofails
         /\ open' = x.open
         /\ wire' = x.wire
         /\ subs' = x.subs
         /\ ps' = CASE x.st = "ok" -> "released"
                    [] x.st = "err" -> "dropped"
                    [] OTHER -> "blocked"
         /\ pslast' = [op |-> "exit_pubsub", arg |-> "", ok |-> x.st = "ok", err |-> x.err,
                       log |-> x.log, reads |-> x.reads, had |-> FALSE]
    /\ UNCHANGED <<subscribed_topics, subscribed_patterns, received>>
    /\ UNCHANGED <<ppc, cur, last, prev, ncalls>>
    /\ UNCHANGED txVars
    /\ UNCHANGED coVars
    /\ UNCHANGED inVars

\* The caller's next request on the connection exit_pubsub() returned:
\* req_packed_command(PING), which the server answers with PONG.
NextRequest(w, r) ==
    /\ ps = "released"
    /\ (w # "ok") => r = "ok"
    /\ (w # "ok" \/ r # "ok") => iofails < MaxIoFail
    /\ iofails' = IF w # "ok" \/ r # "ok" THEN iofails + 1 ELSE iofails
    /\ open' = IF w # "ok" THEN send_bytes_open(open, w)
               ELSE read_response_open(send_bytes_open(open, w), r)
    /\ LET sent == IF w = "ok" THEN wire \o <<Status("PONG")>> ELSE wire
           rd == read_response(sent, IF w = "ok" THEN r ELSE w)
       IN  /\ wire' = rd.wire
           /\ pslast' = [op |-> "request", arg |-> "PING", ok |-> w = "ok" /\ r = "ok",
                         err |-> IF w = "ok" /\ r = "ok" THEN None ELSE Some(rd.resp),
                         log |-> IF w = "ok" THEN <<"PING", "read">> ELSE <<>>,
                         reads |-> IF w = "ok" /\ r = "ok" THEN <<rd.resp>> ELSE <<>>,
                         had |-> FALSE]
    /\ ps' = "used"
    /\ UNCHANGED <<subs, subscribed_topics, subscribed_patterns, received, budget>>
    /\ UNCHANGED <<ppc, cur, last, prev, ncalls>>
    /\ UNCHANGED txVars
    /\ UNCHANGED coVars
    /\ UNCHANGED inVars

\* The calls on the tracked collections, over three topics and a pattern.
TrackNext ==
    \/ \E topic \in Topics, w \in {"ok"} \cup FailKinds, r \in {"ok"} \cup ReadFailKinds :
         budget.calls < MaxSubCalls /\ Subscribe(topic, w, r)
    \/ \E pattern \in Patterns, w \in {"ok"} \cup FailKinds, r \in {"ok"} \cup ReadFailKinds :
         budget.calls < MaxSubCalls /\ PSubscribe(pattern, w, r)
    \/ \E topic \in Topics, w \in {"ok"} \cup FailKinds, r \in {"ok"} \cup ReadFailKinds :
         budget.calls < MaxSubCalls /\ Unsubscribe(topic, w, r)
    \/ \E pattern \in Patterns, w \in {"ok"} \cup FailKinds, r \in {"ok"} \cup ReadFailKinds :
         budget.calls < MaxSubCalls /\ PUnsubscribe(pattern, w, r)

SpecTrack == PsInit /\ [][TrackNext]_vars

\* A whole session: a topic and a pattern, a publisher, receive() and
\* exit_pubsub(), and the request that follows it.
SessionTopics == {"hello"}
SessionNext ==
    \/ \E topic \in SessionTopics :
         budget.calls < MaxSessionCalls /\ Subscribe(topic, "ok", "ok")
    \/ \E pattern \in Patterns :
         budget.calls < MaxSessionCalls /\ PSubscribe(pattern, "ok", "ok")
    \/ \E topic \in SessionTopics :
         budget.calls < MaxSessionCalls /\ Unsubscribe(topic, "ok", "ok")
    \/ \E pattern \in Patterns :
         budget.calls < MaxSessionCalls /\ PUnsubscribe(pattern, "ok", "ok")
    \/ \E channel \in Channels, payload \in Payloads : Publish(channel, payload)
    \/ \E failAt \in -1..Len(wire), r \in {"ok"} \cup ReadFailKinds : Receive(failAt, r)
    \/ \E w1 \in {"ok"} \cup FailKinds, w2 \in {"ok"} \cup FailKinds,
          mid \in {None} \cup {Some(<<c, p>>) : c \in Channels, p \in Payloads},
          failAt \in -1..(Len(wire) + Cardinality(Topics) + Cardinality(Patterns) + 3),
          r \in {"ok"} \cup ReadFailKinds :
         ExitPubsub(w1, w2, mid, failAt, r)
    \/ \E w \in {"ok"} \cup FailKinds, r \in {"ok"} \cup ReadFailKinds : NextRequest(w, r)

SpecSession == PsInit /\ [][SessionNext]_vars


(* ------------------------------------ liveness of a connection (is_open) *)

\* Calls made on the connection in one behaviour.
MaxLive == 3

\* io::ErrorKind values of a failing write and of a failing read.
WriteKinds == {"TimedOut", "WouldBlock", "BrokenPipe", "ConnectionReset"}
ReadKinds == WriteKinds \cup {"UnexpectedEof"}

\* An error frame of the server, and the RedisError the parser makes of it.
ErrFrame == [t |-> "Error", x |-> <<"ERR", "unknown command">>]
ServerError == [call |-> 0, idx |-> 0, kind |-> "err", io |-> "none"]
\* What the server answers a command with.
LiveReplies == {Status("PONG"), Nil, Data(InvalidUtf8), ErrFrame}

\* Parser::parse_value on a complete frame: an error frame goes to the error
\* channel, every other frame is a Value.
parse_value(f) ==
    IF f.t = "Error" THEN [ok |-> FALSE, err |-> Some(ServerError)]
    ELSE [ok |-> TRUE, err |-> None]

\* Connection::send_packed_command: self.con.send_bytes(cmd)?; Ok(()).
\* The server answers a command that was written with reply.
send_packed_command(o, wi, w, reply) ==
    [ok |-> w = "ok", err |-> IF w = "ok" THEN None ELSE Some(IoError(w)),
     got |-> None, open |-> send_bytes_open(o, w),
     wire |-> IF w = "ok" THEN Append(wi, reply) ELSE wi]

\* Connection::recv_response: self.read_response(None).
recv_response(o, wi, r) ==
    LET rd == read_response(wi, r) IN
    IF r # "ok"
    THEN [ok |-> FALSE, err |-> Some(rd.resp), got |-> None,
          open |-> read_response_open(o, r), wire |-> rd.wire]
    ELSE [ok |-> parse_value(rd.resp).ok, err |-> parse_value(rd.resp).err,
          got |-> Some(rd.resp), open |-> read_response_open(o, r), wire |-> rd.wire]

\* ConnectionLike::req_packed_command: self.con.send_bytes(cmd)?;
\* self.read_response(None).
req_packed_command(o, wi, w, reply, r) ==
    LET s == send_packed_command(o, wi, w, reply) IN
    IF ~s.ok THEN s ELSE recv_response(s.open, s.wire, r)

\* Cmd::query::<String>: the reply of req_packed_command through
\* from_redis_value::<String>.
query_String(q) ==
    IF q.ok /\ from_redis_value_String(q.got[1]) = None
    THEN [q EXCEPT !.ok = FALSE, !.err = Some(TypeError)]
    ELSE q

\* ConnectionLike::check_connection: cmd("PING").query::<String>(self).is_ok()
\* (check_connection_any: the faulty variant that accepts every reply that
\* was read, whatever its type.)
check_connection_any(q) ==
    q.ok
check_connection(q) ==
    query_String(q).ok

\* closed: has a read_response of this connection met a closed or dropped
\* connection so far. res: what check_connection returned.
NoLive == [op |-> "none", w |-> "none", r |-> "none", ok |-> TRUE, err |-> None,
           got |-> None, res |-> TRUE, closed |-> FALSE]

LiveInit ==
    /\ open = TRUE
    /\ wire = <<>>
    /\ ppc = "idle"
    /\ cur = NoCur
    /\ last = NoCall
    /\ prev = Summary(NoCall)
    /\ ncalls = 0
    /\ iofails = 0
    /\ store = 0
    /\ watch = <<>>
    /\ tx = <<>>
    /\ hist = <<>>
    /\ env = <<>>
    /\ subs = <<>>
    /\ subscribed_topics = <<>>
    /\ subscribed_patterns = <<>>
    /\ ps = "none"
    /\ pslast = <<>>
    /\ received = <<>>
    /\ budget = <<>>
    /\ lv = NoLive
    /\ cn = <<>>
    /\ hs = <<>>
    /\ sock = <<>>
    /\ cmp = <<>>
    /\ url = <<>>
    /\ dial = <<>>
    /\ dec = <<>>

\* Bookkeeping shared by the calls: q is what the call returns and leaves.
LiveCall(op, w, r, q, res) ==
    /\ ncalls < MaxLive
    /\ ncalls' = ncalls + 1
    /\ open' = q.open
    /\ wire' = q.wire
    /\ lv' = [op |-> op, w |-> w, r |-> r, ok |-> q.ok, err |-> q.err, got |-> q.got,
              res |-> res,
              closed |-> lv.closed
                           \/ r \in {"BrokenPipe", "ConnectionReset", "UnexpectedEof"}]
    /\ UNCHANGED <<ppc, cur, last, prev, iofails>>
    /\ UNCHANGED txVars
    /\ UNCHANGED psVars
    /\ UNCHANGED <<cn, hs, sock, cmp>>
    /\ UNCHANGED inVars

LiveSend(w, reply) ==
    \E q \in {send_packed_command(open, wire, w, reply)} :
        LiveCall("send_packed_command", w, "none", q, TRUE)

LiveRecv(r) ==
    /\ (r = "ok") => (wire # <<>>)
    /\ LiveCall("recv_response", "none", r, recv_response(open, wire, r), TRUE)

LiveReq(w, reply, r) ==
    \E q \in {req_packed_command(open, wire, w, reply, r)} :
        LiveCall("req_packed_command", w, IF w = "ok" THEN r ELSE "none", q, TRUE)

LiveCheck(w, reply, r) ==
    \E q \in {req_packed_command(open, wire, w, reply, r)} :
        LiveCall("check_connection", w, IF w = "ok" THEN r ELSE "none",
                 query_String(q), check_connection(q))

LiveNext ==
    \/ \E w \in {"ok"} \cup WriteKinds, reply \in LiveReplies : LiveSend(w, reply)
    \/ \E r \in {"ok"} \cup ReadKinds : LiveRecv(r)
    \/ \E w \in {"ok"} \cup WriteKinds, reply \in LiveReplies, r \in {"ok"} \cup ReadKinds :
         LiveReq(w, reply, r)
    \/ \E w \in {"ok"} \cup WriteKinds, reply \in LiveReplies, r \in {"ok"} \cup ReadKinds :
         LiveCheck(w, reply, r)

SpecLive == LiveInit /\ [][LiveNext]_vars

(* --------------------------------------------------- RedisError (types.rs) *)

\* enum ErrorRepr, with RedisError::kind filled in for each variant.
WithDescription(kind, desc) ==
    [repr |-> "WithDescription", kind |-> kind, desc |-> desc, detail |-> "",
     code |-> "", io |-> ""]
WithDescriptionAndDetail(kind, desc, detail) ==
    [repr |-> "WithDescriptionAndDetail", kind |-> kind, desc |-> desc,
     detail |-> detail, code |-> "", io |-> ""]
ExtensionError(code, detail) ==
    [repr |-> "ExtensionError", kind |-> "ExtensionError", desc |-> "",
     detail |-> detail, code |-> code, io |-> ""]
ReprIoError(iokind, desc) ==
    [repr |-> "IoError", kind |-> "IoError", desc |-> desc, detail |-> "",
     code |-> "", io |-> iokind]

\* RedisError::detail
detail(e) ==
    IF e.repr \in {"WithDescriptionAndDetail", "ExtensionError"} THEN Some(e.detail)
    ELSE None

\* impl PartialEq for RedisError
\* (eq_text: the faulty variant that compares the message text as well.)
eq_text(a, b) ==
    a = b
eq(a, b) ==
    IF a.repr = "WithDescription" /\ b.repr = "WithDescription" THEN a.kind = b.kind
    ELSE IF a.repr = "WithDescriptionAndDetail" /\ b.repr = "WithDescriptionAndDetail"
    THEN a.kind = b.kind
    ELSE IF a.repr = "ExtensionError" /\ b.repr = "ExtensionError" THEN a.code = b.code
    ELSE FALSE

\* The errors compared: two kinds, two codes, two I/O kinds, two texts each.
Errors ==
    {WithDescription(k, t) : k \in {"TypeError", "ResponseError"}, t \in {"a", "b"}}
      \cup {WithDescriptionAndDetail(k, t, t) :
                k \in {"TypeError", "ResponseError"}, t \in {"a", "b"}}
      \cup {ExtensionError(c, t) : c \in {"FOO", "BAR"}, t \in {"a", "b"}}
      \cup {ReprIoError(k, t) : k \in {"TimedOut", "BrokenPipe"}, t \in {"a", "b"}}

ErrInit ==
    /\ open = TRUE
    /\ wire = <<>>
    /\ ppc = "idle"
    /\ cur = NoCur
    /\ last = NoCall
    /\ prev = Summary(NoCall)
    /\ ncalls = 0
    /\ iofails = 0
    /\ store = 0
    /\ watch = <<>>
    /\ tx = <<>>
    /\ hist = <<>>
    /\ env = <<>>
    /\ subs = <<>>
    /\ subscribed_topics = <<>>
    /\ subscribed_patterns = <<>>
    /\ ps = "none"
    /\ pslast = <<>>
    /\ received = <<>>
    /\ budget = <<>>
    /\ lv = <<>>
    /\ cn = <<>>
    /\ hs = <<>>
    /\ sock = <<>>
    /\ cmp \in [a : Errors, b : Errors, done : {FALSE}, eq : {FALSE}]
    /\ url = <<>>
    /\ dial = <<>>
    /\ dec = <<>>

\* a == b is evaluated.
Compare ==
    /\ ~cmp.done
    /\ cmp' = [cmp EXCEPT !.done = TRUE, !.eq = eq(cmp.a, cmp.b)]
    /\ UNCHANGED pipeVars
    /\ UNCHANGED txVars
    /\ UNCHANGED psVars
    /\ UNCHANGED <<lv, cn, hs, sock>>
    /\ UNCHANGED inVars

SpecErr == ErrInit /\ [][Compare]_vars

(* ------------------------------------------------- connect (connection.rs) *)

\* The detail of the error a server that knows only AUTH password gives to
\* AUTH username password.
WrongArity == "wrong number of arguments for 'auth' command"

\* The server's reply to AUTH: srv.mode "acl" takes both forms, "legacy" only
\* AUTH password, "odd" answers with a value that is not OK; srv.good says
\* whether the credentials are the right ones.
SrvAuth(srv, args) ==
    IF srv.mode = "odd" THEN Status("PONG")
    ELSE IF srv.mode = "legacy" /\ Len(args) = 2
    THEN [t |-> "Error", x |-> <<"ERR", WrongArity>>]
    ELSE IF srv.good THEN Okay
    ELSE IF srv.mode = "legacy" THEN [t |-> "Error", x |-> <<"ERR", "invalid password">>]
    ELSE [t |-> "Error", x |-> <<"WRONGPASS", "invalid username-password pair">>]

\* The server's reply to SELECT: OK, an error, or a value that is not OK.
SrvSelect(srv) ==
    CASE srv.sel = "ok" -> Okay
      [] srv.sel = "err" -> [t |-> "Error", x |-> <<"ERR", "DB index is out of range">>]
      [] OTHER -> Status("QUEUED")

\* The RedisError the parser makes of an error frame: code ERR is a
\* ResponseError with the rest of the line as detail, an unknown code an
\* extension error.
parse_error(f) ==
    IF f.x[1] = "ERR"
    THEN WithDescriptionAndDetail("ResponseError", "An error was signalled by the server",
                                  f.x[2])
    ELSE ExtensionError(f.x[1], f.x[2])

\* Cmd::query::<Value>: req_packed_command (send_bytes(cmd)?; read_response())
\* on a connection without unread replies; w and r are the outcomes of the
\* write and of the read, reply what the server answers.
query_Value(w, reply, r) ==
    IF w # "ok" THEN [ok |-> FALSE, v |-> Nil, err |-> Some(ReprIoError(w, ""))]
    ELSE IF r # "ok" THEN [ok |-> FALSE, v |-> Nil, err |-> Some(ReprIoError(r, ""))]
    ELSE IF reply.t = "Error" THEN [ok |-> FALSE, v |-> Nil, err |-> Some(parse_error(reply))]
    ELSE [ok |-> TRUE, v |-> reply, err |-> None]

\* fail!((kind, desc)) and Ok(()).
Fail(kind, desc) == [ok |-> FALSE, v |-> Nil, err |-> Some(WithDescription(kind, desc))]
OkRes == [ok |-> TRUE, v |-> Nil, err |-> None]

\* connect_auth, after the first AUTH returned Err(err): is the legacy form
\* tried. err.detail() must be Some and contain the wrong-arity text.
\* (auth_fallback_any_detail: the faulty variant that retries on every error
\* of the server.)
auth_fallback_any_detail(err) ==
    detail(err) # None
auth_fallback(err) ==
    detail(err) # None /\ detail(err)[1] = WrongArity

\* setup_connection, `connect_auth(&mut rv, connection_info)?`: where connect
\* goes after the AUTH exchange returned res.
\* (after_auth_ignore: the faulty variant that drops the `?`.)
after_auth_ignore(res, db) ==
    IF db # 0 THEN "select" ELSE "done"
after_auth(res, db) ==
    IF ~res.ok THEN "done" ELSE IF db # 0 THEN "select" ELSE "done"

\* setup_connection, the match on the reply to SELECT: Ok(Value::Okay) => {}
\* (select_ok_any: the faulty variant that takes every value for success.)
select_ok_any(q) ==
    q.ok
select_ok(q) ==
    q.ok /\ q.v = Okay

\* log: the commands written, each with the outcome of its write and the
\* result of its query; rv: the Connection returned.
NoConnect == [pc |-> "start", info |-> <<>>, srv |-> <<>>, log |-> <<>>,
              res |-> None, rv |-> None]

ConnInit ==
    /\ open = FALSE
    /\ wire = <<>>
    /\ ppc = "idle"
    /\ cur = NoCur
    /\ last = NoCall
    /\ prev = Summary(NoCall)
    /\ ncalls = 0
    /\ iofails = 0
    /\ store = 0
    /\ watch = <<>>
    /\ tx = <<>>
    /\ hist = <<>>
    /\ env = <<>>
    /\ subs = <<>>
    /\ subscribed_topics = <<>>
    /\ subscribed_patterns = <<>>
    /\ ps = "none"
    /\ pslast = <<>>
    /\ received = <<>>
    /\ budget = <<>>
    /\ lv = <<>>
    /\ cn = NoConnect
    /\ hs = <<>>
    /\ sock = <<>>
    /\ cmp = <<>>
    /\ url = <<>>
    /\ dial = <<>>
    /\ dec = <<>>

\* What every step of connect leaves alone.
ConnFrame ==
    /\ UNCHANGED <<wire, ppc, cur, last, prev, ncalls, iofails>>
    /\ UNCHANGED txVars
    /\ UNCHANGED psVars
    /\ UNCHANGED <<lv, hs, sock, cmp>>
    /\ UNCHANGED inVars

\* connect(): ActualConnection::new(addr, timeout)?, then setup_connection up
\* to its first command. t is the outcome of the transport connect, "ok" or
\* the io::ErrorKind of the failure, which `?` returns as an I/O error.
Connect(info, srv, t) ==
    /\ cn.pc = "start"
    /\ open' = (t = "ok")
    /\ cn' = IF t # "ok"
             THEN [cn EXCEPT !.pc = "done", !.info = info, !.srv = srv,
                             !.res = Some(query_Value(t, Okay, "ok"))]
             ELSE IF info.password # None
             THEN [cn EXCEPT !.pc = "auth", !.info = info, !.srv = srv]
             ELSE IF info.db # 0
             THEN [cn EXCEPT !.pc = "select", !.info = info, !.srv = srv]
             ELSE [cn EXCEPT !.pc = "done", !.info = info, !.srv = srv,
                             !.res = Some(OkRes),
                             !.rv = Some([db |-> info.db, pubsub |-> FALSE])]
    /\ ConnFrame

\* A step of connect that ran one command: the log grows, and connect either
\* goes on (pc) or returns res.
ConnStep(name, args, w, r, q, pc, res) ==
    /\ (w # "ok") => (r = "ok")
    /\ open' = IF w # "ok" THEN send_bytes_open(open, w) ELSE read_response_open(open, r)
    /\ cn' = [cn EXCEPT
                !.pc = pc,
                !.log = Append(@, [name |-> name, args |-> args, w |-> w, q |-> q]),
                !.res = IF pc = "done" THEN Some(res) ELSE None,
                !.rv = IF pc = "done" /\ res.ok
                       THEN Some([db |-> cn.info.db, pubsub |-> FALSE]) ELSE None]
    /\ ConnFrame

\* connect_auth, the first AUTH: AUTH [username] password.
ConnectAuth(w, r) ==
    /\ cn.pc = "auth"
    /\ LET args == (IF cn.info.username # None THEN cn.info.username ELSE <<>>)
                        \o cn.info.password
           q == query_Value(w, SrvAuth(cn.srv, args), r)
           res == IF q.ok /\ q.v = Okay THEN OkRes
                  ELSE IF q.ok
                  THEN Fail("ResponseError", "Redis server refused to authenticate")
                  ELSE Fail("AuthenticationFailed", "Password authentication failed")
       IN  ConnStep("AUTH", args, w, r, q,
                    IF ~q.ok /\ auth_fallback(q.err[1]) THEN "fallback"
                    ELSE after_auth(res, cn.info.db),
                    res)

\* connect_auth, the fallback to AUTH version <= 5: AUTH password.
ConnectAuthFallback(w, r) ==
    /\ cn.pc = "fallback"
    /\ LET q == query_Value(w, SrvAuth(cn.srv, cn.info.password), r)
           res == IF q.ok /\ q.v = Okay THEN OkRes
                  ELSE Fail("AuthenticationFailed", "Password authentication failed")
       IN  ConnStep("AUTH", cn.info.password, w, r, q, after_auth(res, cn.info.db), res)

\* setup_connection: SELECT db.
ConnectSelect(w, r) ==
    /\ cn.pc = "select"
    /\ LET q == query_Value(w, SrvSelect(cn.srv), r)
           res == IF select_ok(q) THEN OkRes
                  ELSE Fail("ResponseError", "Redis server refused to switch database")
       IN  ConnStep("SELECT", <<"db">>, w, r, q, "done", res)

\* ConnectionInfo values and servers connect() is run against.
Infos == [username : {None, Some("user")}, password : {None, Some("pw")}, db : {0, 1}]
Servers == [mode : {"acl", "legacy", "odd"}, good : BOOLEAN, sel : {"ok", "err", "value"}]

ConnNext ==
    \/ \E info \in Infos, srv \in Servers, t \in {"ok", "ConnectionRefused"} :
         Connect(info, srv, t)
    \/ \E w \in {"ok", "BrokenPipe"}, r \in {"ok", "TimedOut"} : ConnectAuth(w, r)
    \/ \E w \in {"ok", "BrokenPipe"}, r \in {"ok", "TimedOut"} : ConnectAuthFallback(w, r)
    \/ \E w \in {"ok", "BrokenPipe"}, r \in {"ok", "TimedOut"} : ConnectSelect(w, r)

SpecConnect == ConnInit /\ [][ConnNext]_vars

(* ------------------------------- handles on one socket (connection.rs) *)

\* Handles made in one behaviour, and calls made through them.
MaxHandles == 3
MaxSockOps == 2

Handles == 1..MaxHandles
NoHandle == [type |-> "free", con |-> <<>>, parser |-> "none", db |-> 0,
             pubsub |-> FALSE, via |-> "none", of |-> 0]

\* impl Clone for Connection: the stream handle and the open flag are
\* copied (derive(Clone) of TcpConnection), the parser is new.
\* (clone_reopened: the faulty variant whose copy starts open.)
clone_reopened(c) ==
    [type |-> c.type, con |-> [c.con EXCEPT !.open = TRUE], parser |-> "fresh",
     db |-> c.db, pubsub |-> c.pubsub]
clone(c) ==
    [type |-> c.type, con |-> c.con, parser |-> "fresh", db |-> c.db,
     pubsub |-> c.pubsub]

\* Connection::strip
\* (strip_default_db: the faulty variant that loses the database index.)
strip_default_db(c) ==
    [type |-> "StrippedConnection", con |-> c.con, parser |-> "none", db |-> 0,
     pubsub |-> c.pubsub]
strip(c) ==
    [type |-> "StrippedConnection", con |-> c.con, parser |-> "none", db |-> c.db,
     pubsub |-> c.pubsub]

\* StrippedConnection::with_parser
with_parser(s) ==
    [type |-> "Connection", con |-> s.con, parser |-> "fresh", db |-> s.db,
     pubsub |-> s.pubsub]

\* Connection::as_pubsub: RedisPubSub::new(self); the flag is not raised.
\* (as_pubsub_raises: the variant that raises it.)
as_pubsub_raises(c) ==
    [c EXCEPT !.type = "RedisPubSub", !.pubsub = TRUE]
as_pubsub(c) ==
    [c EXCEPT !.type = "RedisPubSub"]

\* req_packed_command / req_packed_commands, before send_bytes: the test of
\* self.pubsub and the call of exit_pubsub are commented out, so nothing is
\* written before the command.
exit_first(pubsub) ==
    <<>>

\* A Connection is made by setup_connection, with the flag down, or by
\* Deserialize (derived for Connection and StrippedConnection), which takes
\* db and the flag from the serialized value.
HsInit ==
    /\ open = TRUE
    /\ wire = <<>>
    /\ ppc = "idle"
    /\ cur = NoCur
    /\ last = NoCall
    /\ prev = Summary(NoCall)
    /\ ncalls = 0
    /\ iofails = 0
    /\ store = 0
    /\ watch = <<>>
    /\ tx = <<>>
    /\ hist = <<>>
    /\ env = <<>>
    /\ subs = <<>>
    /\ subscribed_topics = <<>>
    /\ subscribed_patterns = <<>>
    /\ ps = "none"
    /\ pslast = <<>>
    /\ received = <<>>
    /\ budget = <<>>
    /\ lv = <<>>
    /\ cn = <<>>
    /\ hs \in {[h \in Handles |->
                  IF h = 1
                  THEN [type |-> "Connection", con |-> [sock |-> 1, open |-> TRUE],
                        parser |-> "fresh", db |-> db, pubsub |-> flag,
                        via |-> "connect", of |-> 0]
                  ELSE NoHandle] : db \in {0, 1}, flag \in BOOLEAN}
    /\ sock = [n |-> 0, h |-> 0, op |-> "none", wrote |-> <<>>, pubsub |-> FALSE,
               foreign |-> FALSE]
    /\ cmp = <<>>
    /\ url = <<>>
    /\ dial = <<>>
    /\ dec = <<>>

HsFrame ==
    /\ UNCHANGED pipeVars
    /\ UNCHANGED txVars
    /\ UNCHANGED psVars
    /\ UNCHANGED <<lv, cn, cmp>>
    /\ UNCHANGED inVars

\* The handle made by `via` from handle h takes the first free place.
NewHandle(h, via, v) ==
    /\ \E k \in Handles : hs[k].type = "free"
    /\ LET k == CHOOSE i \in Handles :
                    hs[i].type = "free" /\ \A j \in Handles : hs[j].type = "free" => i <= j
       IN  hs' = [hs EXCEPT ![k] = [type |-> v.type, con |-> v.con, parser |-> v.parser,
                                    db |-> v.db, pubsub |-> v.pubsub, via |-> via, of |-> h]]
    /\ UNCHANGED sock
    /\ HsFrame

\* c.clone() of a Connection, or of a RedisPubSub (derive(Clone)), whose
\* connection is then cloned.
Clone(h) ==
    /\ hs[h].type \in {"Connection", "RedisPubSub"}
    /\ NewHandle(h, "clone", clone(hs[h]))

Strip(h) ==
    /\ hs[h].type = "Connection"
    /\ NewHandle(h, "strip", strip(hs[h]))

WithParser(h) ==
    /\ hs[h].type = "StrippedConnection"
    /\ NewHandle(h, "with_parser", with_parser(hs[h]))

\* The handle is moved into the session; other handles are as they were.
AsPubsub(h) ==
    /\ hs[h].type = "Connection"
    /\ hs' = [hs EXCEPT ![h] = [as_pubsub(@) EXCEPT !.via = "as_pubsub"]]
    /\ UNCHANGED sock
    /\ HsFrame

\* A call through handle h that writes the commands `wrote` on the socket
\* and reads replies; w is the outcome of the write. foreign: is there a
\* session on the socket that is not h.
SockOp(h, op, wrote, w, type) ==
    /\ sock.n < MaxSockOps
    /\ sock' = [n |-> sock.n + 1, h |-> h, op |-> op, wrote |-> wrote,
                pubsub |-> hs[h].pubsub,
                foreign |-> \E k \in Handles \ {h} : hs[k].type = "RedisPubSub"]
    /\ hs' = [hs EXCEPT ![h].type = type,
                        ![h].parser = IF w = "ok" THEN "used" ELSE @,
                        ![h].con.open = send_bytes_open(@, w)]
    /\ HsFrame

\* req_packed_command / req_packed_commands on a Connection.
Request(h, op, w) ==
    /\ hs[h].type = "Connection"
    /\ SockOp(h, op, exit_first(hs[h].pubsub) \o <<"CMD">>, w, "Connection")

\* subscribe on a session.
SessionSubscribe(h, w) ==
    /\ hs[h].type = "RedisPubSub"
    /\ SockOp(h, "subscribe", <<"SUBSCRIBE">>, w, "RedisPubSub")

\* exit_pubsub on a session: on Ok the Connection is handed back, on an
\* error it is dropped with the session.
SessionExit(h, w) ==
    /\ hs[h].type = "RedisPubSub"
    /\ SockOp(h, "exit_pubsub", <<"UNSUBSCRIBE", "PUNSUBSCRIBE">>, w,
              IF w = "ok" THEN "Connection" ELSE "dropped")

HsNext ==
    \/ \E h \in Handles : Clone(h)
    \/ \E h \in Handles : Strip(h)
    \/ \E h \in Handles : WithParser(h)
    \/ \E h \in Handles : AsPubsub(h)
    \/ \E h \in Handles, op \in {"req_packed_command", "req_packed_commands"},
          w \in {"ok", "BrokenPipe"} : Request(h, op, w)
    \/ \E h \in Handles, w \in {"ok", "BrokenPipe"} : SessionSubscribe(h, w)
    \/ \E h \in Handles, w \in {"ok", "BrokenPipe"} : SessionExit(h, w)

SpecHandles == HsInit /\ [][HsNext]_vars

\* The handles of a program that gets its first Connection from connect():
\* setup_connection makes it on the database asked for, with the flag down.
ConnectedInit ==
    /\ open = TRUE
    /\ wire = <<>>
    /\ ppc = "idle"
    /\ cur = NoCur
    /\ last = NoCall
    /\ prev = Summary(NoCall)
    /\ ncalls = 0
    /\ iofails = 0
    /\ store = 0
    /\ watch = <<>>
    /\ tx = <<>>
    /\ hist = <<>>
    /\ env = <<>>
    /\ subs = <<>>
    /\ subscribed_topics = <<>>
    /\ subscribed_patterns = <<>>
    /\ ps = "none"
    /\ pslast = <<>>
    /\ received = <<>>
    /\ budget = <<>>
    /\ lv = <<>>
    /\ cn = <<>>
    /\ hs \in {[h \in Handles |->
                  IF h = 1
                  THEN [type |-> "Connection", con |-> [sock |-> 1, open |-> TRUE],
                        parser |-> "fresh", db |-> db, pubsub |-> FALSE,
                        via |-> "connect", of |-> 0]
                  ELSE NoHandle] : db \in {0, 1}}
    /\ sock = [n |-> 0, h |-> 0, op |-> "none", wrote |-> <<>>, pubsub |-> FALSE,
               foreign |-> FALSE]
    /\ cmp = <<>>
    /\ url = <<>>
    /\ dial = <<>>
    /\ dec = <<>>

SpecConnected == ConnectedInit /\ [][HsNext]_vars

(* ------------------------- the database index of a URL (connection.rs) *)

\* Longest URL path parsed, in characters, and the characters paths are
\* made of.
MaxPathLen == 4
PathChars == {"/", "-", "+", "0", "1", "2", "d"}

\* url.path() of a parsed URL: empty, or a text that starts with "/".
Paths ==
    {<<>>} \cup {<<"/">> \o rest : rest \in UNION {[1..n -> PathChars] : n \in 0..(MaxPathLen - 1)}}

\* str::trim_matches('/'): the text without the slashes at its two ends.
RECURSIVE trim_start(_)
trim_start(p) ==
    IF p # <<>> /\ Head(p) = "/" THEN trim_start(Tail(p)) ELSE p
RECURSIVE trim_end(_)
trim_end(p) ==
    IF p # <<>> /\ p[Len(p)] = "/" THEN trim_end(SubSeq(p, 1, Len(p) - 1)) ELSE p
trim_matches(p) == trim_end(trim_start(p))

DigitChars == <<"0", "1", "2", "3", "4", "5", "6", "7", "8", "9">>
Digits == {DigitChars[i] : i \in DOMAIN DigitChars}
DigitVal(c) == (CHOOSE i \in DOMAIN DigitChars : DigitChars[i] = c) - 1

\* The value of a text of digits, most significant first.
RECURSIVE Decimal(_)
Decimal(ds) ==
    IF ds = <<>> THEN 0
    ELSE 10 * Decimal(SubSeq(ds, 1, Len(ds) - 1)) + DigitVal(ds[Len(ds)])

\* str::parse::<i64>().ok(): an optional sign, "+" or "-", then one digit or
\* more and nothing else. (The texts here are too short to overflow i64.)
parse_i64(t) ==
    LET signed == t # <<>> /\ t[1] \in {"+", "-"}
        ds == IF signed THEN Tail(t) ELSE t
    IN  IF ds = <<>> \/ \E i \in DOMAIN ds : ds[i] \notin Digits THEN None
        ELSE IF signed /\ t[1] = "-" THEN Some(0 - Decimal(ds))
        ELSE Some(Decimal(ds))

\* url_to_tcp_connection_info, the db field:
\* match url.path().trim_matches('/') { "" => 0, path => unwrap_or!(
\*     path.parse::<i64>().ok(), fail!((InvalidClientConfig, "Invalid database number"))) }
db_of_path(path) ==
    LET t == trim_matches(path) IN
    IF t = <<>> THEN [ok |-> TRUE, db |-> 0, err |-> None]
    ELSE LET n == parse_i64(t) IN
         IF n = None
         THEN [ok |-> FALSE, db |-> 0,
               err |-> Some(WithDescription("InvalidClientConfig",
                                            "Invalid database number"))]
         ELSE [ok |-> TRUE, db |-> n[1], err |-> None]

UrlInit ==
    /\ open = FALSE
    /\ wire = <<>>
    /\ ppc = "idle"
    /\ cur = NoCur
    /\ last = NoCall
    /\ prev = Summary(NoCall)
    /\ ncalls = 0
    /\ iofails = 0
    /\ store = 0
    /\ watch = <<>>
    /\ tx = <<>>
    /\ hist = <<>>
    /\ env = <<>>
    /\ subs = <<>>
    /\ subscribed_topics = <<>>
    /\ subscribed_patterns = <<>>
    /\ ps = "none"
    /\ pslast = <<>>
    /\ received = <<>>
    /\ budget = <<>>
    /\ lv = <<>>
    /\ cn = <<>>
    /\ hs = <<>>
    /\ sock = <<>>
    /\ cmp = <<>>
    /\ url \in [path : Paths, done : {FALSE}, res : {db_of_path(<<>>)}]
    /\ dial = <<>>
    /\ dec = <<>>

\* url_to_tcp_connection_info(url) is evaluated.
ParseUrl ==
    /\ ~url.done
    /\ url' = [url EXCEPT !.done = TRUE, !.res = db_of_path(url.path)]
    /\ UNCHANGED <<dial, dec>>
    /\ UNCHANGED pipeVars
    /\ UNCHANGED txVars
    /\ UNCHANGED psVars
    /\ UNCHANGED coVars

SpecUrl == UrlInit /\ [][ParseUrl]_vars

(* ------------------ ActualConnection::new, Tcp with a timeout (connection.rs) *)

\* Most addresses a host name resolves to, and what connect_timeout can
\* report for one of them.
MaxAddrs == 3
ConnectOutcomes == {"ok", "TimedOut", "ConnectionRefused"}
AddrLists == UNION {[1..n -> ConnectOutcomes] : n \in 0..MaxAddrs}

\* The loop `for addr in ..to_socket_addrs()? { .. }` goes on to the next
\* address unless it has none left or `break` has ended it.
\* (loop_goes_on_ignoring_break: the faulty variant without the break.)
loop_goes_on_ignoring_break(d) ==
    d.i <= Len(d.addrs)
loop_goes_on(d) ==
    d.i <= Len(d.addrs) /\ d.tcp = None

\* One iteration: match TcpStream::connect_timeout(addr, timeout)
\*   Ok(l) => { tcp = Some(l); break; }   Err(e) => { last_error = Some(e); }
connect_timeout(d) ==
    LET o == d.addrs[d.i] IN
    [d EXCEPT !.i = d.i + 1,
              !.tried = Append(d.tried, d.i),
              !.tcp = IF o = "ok" THEN Some(d.i) ELSE @,
              !.last_error = IF o = "ok" THEN @ ELSE Some(o)]

\* match (tcp, last_error): (Some(tcp), _) => tcp, (None, Some(e)) => fail!(e),
\* (None, None) => fail!((InvalidClientConfig, "could not resolve to any addresses"))
dial_result(tcp, last_error) ==
    IF tcp # None THEN [ok |-> TRUE, tcp |-> tcp, err |-> None]
    ELSE IF last_error # None
    THEN [ok |-> FALSE, tcp |-> None, err |-> Some(ReprIoError(last_error[1], ""))]
    ELSE [ok |-> FALSE, tcp |-> None,
          err |-> Some(WithDescription("InvalidClientConfig",
                                       "could not resolve to any addresses"))]

NoDial == [ok |-> FALSE, tcp |-> None, err |-> None]

\* The host name resolves to a list of addresses, each of which accepts the
\* connection or fails it in some way; or resolution itself fails.
DialInit ==
    /\ open = FALSE
    /\ wire = <<>>
    /\ ppc = "idle"
    /\ cur = NoCur
    /\ last = NoCall
    /\ prev = Summary(NoCall)
    /\ ncalls = 0
    /\ iofails = 0
    /\ store = 0
    /\ watch = <<>>
    /\ tx = <<>>
    /\ hist = <<>>
    /\ env = <<>>
    /\ subs = <<>>
    /\ subscribed_topics = <<>>
    /\ subscribed_patterns = <<>>
    /\ ps = "none"
    /\ pslast = <<>>
    /\ received = <<>>
    /\ budget = <<>>
    /\ lv = <<>>
    /\ cn = <<>>
    /\ hs = <<>>
    /\ sock = <<>>
    /\ cmp = <<>>
    /\ url = <<>>
    /\ dial \in [pc : {"start"}, resolve : {"ok", "NotFound"}, addrs : AddrLists, i : {1},
                 tcp : {None}, last_error : {None}, tried : {<<>>}, res : {NoDial}]
    /\ dec = <<>>

DialFrame ==
    /\ UNCHANGED <<url, dec>>
    /\ UNCHANGED <<wire, ppc, cur, last, prev, ncalls, iofails>>
    /\ UNCHANGED txVars
    /\ UNCHANGED psVars
    /\ UNCHANGED coVars

\* format!("{}:{}", host, port).to_socket_addrs()?
Resolve ==
    /\ dial.pc = "start"
    /\ dial' = IF dial.resolve = "ok" THEN [dial EXCEPT !.pc = "loop"]
               ELSE [dial EXCEPT !.pc = "done",
                                 !.res = [ok |-> FALSE, tcp |-> None,
                                          err |-> Some(ReprIoError(dial.resolve, ""))]]
    /\ UNCHANGED open
    /\ DialFrame

\* One iteration of the loop.
ConnectTimeout ==
    /\ dial.pc = "loop"
    /\ loop_goes_on(dial)
    /\ dial' = connect_timeout(dial)
    /\ UNCHANGED open
    /\ DialFrame

\* The loop is over: the match, and on success TcpConnection { reader: tcp, open: true }.
DialReturn ==
    /\ dial.pc = "loop"
    /\ ~loop_goes_on(dial)
    /\ dial' = [dial EXCEPT !.pc = "done", !.res = dial_result(dial.tcp, dial.last_error)]
    /\ open' = (dial.tcp # None)
    /\ DialFrame

DialNext ==
    \/ Resolve
    \/ ConnectTimeout
    \/ DialReturn

SpecDial == DialInit /\ [][DialNext]_vars

(* ------------------------- RESP: encoding, parsing, partial reads (parser) *)

\* Most bytes one read delivers, and most would-block interruptions of one
\* parse.
MaxChunk == 3
MaxBlocks == 2

\* Bytes are written as one-character texts, CR and LF by name.
CRLF == <<"CR", "LF">>
OK == <<"O", "K">>

\* The decimal text of an integer.
RECURSIVE itoa(_)
itoa(n) ==
    IF n < 0 THEN <<"-">> \o itoa(0 - n)
    ELSE IF n < 10 THEN <<DigitChars[n + 1]>>
    ELSE itoa(n \div 10) \o <<DigitChars[(n % 10) + 1]>>

\* The integer of a decimal text with an optional "-".
atoi(t) ==
    IF t # <<>> /\ t[1] = "-" THEN 0 - Decimal(Tail(t)) ELSE Decimal(t)

\* #[derive(PartialEq)] for Value: the same variant with the same contents.
RECURSIVE SameValue(_, _)
SameValue(a, b) ==
    IF a.t # b.t THEN FALSE
    ELSE IF a.t = "Bulk"
    THEN Len(a.x) = Len(b.x) /\ \A i \in DOMAIN a.x : SameValue(a.x[i], b.x[i])
    ELSE a.x = b.x

\* arbitrary_value, case 4: a status text of ASCII letters becomes
\* if status == "OK" { Value::Okay } else { Value::Status(status) }
\* (arbitrary_status_raw: the variant without the test.)
arbitrary_status_raw(status) ==
    Status(status)
arbitrary_status(status) ==
    IF status = OK THEN Okay ELSE Status(status)

\* encode_value of the tests' support module: the RESP bytes of a Value.
RECURSIVE encode_value(_)
encode_value(v) ==
    CASE v.t = "Nil" -> <<"$", "-", "1">> \o CRLF
      [] v.t = "Int" -> <<":">> \o itoa(v.x[1]) \o CRLF
      [] v.t = "Data" -> <<"$">> \o itoa(Len(v.x[1])) \o CRLF \o v.x[1] \o CRLF
      [] v.t = "Status" -> <<"+">> \o v.x[1] \o CRLF
      [] v.t = "Okay" -> <<"+">> \o OK \o CRLF
      [] v.t = "Bulk" ->
           LET RECURSIVE items(_)
               items(xs) == IF xs = <<>> THEN <<>>
                            ELSE encode_value(Head(xs)) \o items(Tail(xs))
           IN  <<"*">> \o itoa(Len(v.x)) \o CRLF \o items(v.x)

\* Where the first line of b ends: the position of its CR, 0 when b holds no
\* CR LF yet.
LineEnd(b) ==
    LET E == {i \in 1..(Len(b) - 1) : b[i] = "CR" /\ b[i + 1] = "LF"}
    IN  IF E = {} THEN 0 ELSE CHOOSE i \in E : \A j \in E : i <= j

Incomplete == [st |-> "incomplete", v |-> Nil, rest |-> <<>>]

\* The parser on the bytes b it has buffered: one frame, by RESP's rules. The
\* marker byte selects the decoding; lengths and counts are decimal texts
\* ended by CR LF; "+OK" is Value::Okay; a frame that is not all there yet is
\* incomplete, and the parser waits for more bytes.
RECURSIVE parse_frame(_)
RECURSIVE parse_items(_, _, _)
parse_frame(b) ==
    IF b = <<>> \/ LineEnd(b) = 0 THEN Incomplete
    ELSE LET e == LineEnd(b)
             line == SubSeq(b, 2, e - 1)
             rest == SubSeq(b, e + 2, Len(b))
         IN  CASE b[1] = "+" ->
                    [st |-> "ok", v |-> IF line = OK THEN Okay ELSE Status(line),
                     rest |-> rest]
               [] b[1] = ":" -> [st |-> "ok", v |-> IntV(atoi(line)), rest |-> rest]
               [] b[1] = "$" ->
                    IF atoi(line) < 0 THEN [st |-> "ok", v |-> Nil, rest |-> rest]
                    ELSE IF Len(rest) < atoi(line) + 2 THEN Incomplete
                    ELSE [st |-> "ok", v |-> Data(SubSeq(rest, 1, atoi(line))),
                          rest |-> SubSeq(rest, atoi(line) + 3, Len(rest))]
               [] b[1] = "*" ->
                    IF atoi(line) < 0 THEN [st |-> "ok", v |-> Nil, rest |-> rest]
                    ELSE parse_items(rest, atoi(line), <<>>)
               [] OTHER -> [st |-> "err", v |-> Nil, rest |-> rest]
parse_items(b, n, acc) ==
    IF n = 0 THEN [st |-> "ok", v |-> Bulk(acc), rest |-> b]
    ELSE LET r == parse_frame(b) IN
         IF r.st # "ok" THEN r
         ELSE parse_items(r.rest, n - 1, Append(acc, r.v))

\* The status texts tried, and the values: gen tells that the value is made
\* as arbitrary_value makes it; the others are built with Status directly.
StatusTexts == <<<<>>, <<"Q">>, OK, <<"O">>>>
Generated ==
    <<Nil, Okay, IntV(0), IntV(-12), IntV(305),
      [t |-> "Data", x |-> << <<>> >>], [t |-> "Data", x |-> << <<"a", "CR", "LF">> >>],
      arbitrary_status(StatusTexts[1]), arbitrary_status(StatusTexts[2]),
      arbitrary_status(StatusTexts[3]), arbitrary_status(StatusTexts[4]),
      Bulk(<<>>), Bulk(<<Nil, IntV(7)>>),
      Bulk(<<arbitrary_status(OK), [t |-> "Data", x |-> << <<"a">> >>]>>),
      Bulk(<<Bulk(<<IntV(-1), Okay>>), Bulk(<<>>), arbitrary_status(<<"Q">>)>>)>>
Built ==
    <<Status(StatusTexts[1]), Status(StatusTexts[2]), Status(StatusTexts[3]),
      Status(StatusTexts[4]), Bulk(<<IntV(1), Status(OK)>>)>>
TestValues ==
    [i \in 1..(Len(Generated) + Len(Built)) |->
        IF i <= Len(Generated) THEN [gen |-> TRUE, v |-> Generated[i]]
        ELSE [gen |-> FALSE, v |-> Built[i - Len(Generated)]]]

NoParse == [ok |-> FALSE, v |-> Nil, err |-> ""]

\* partial_io_parse: a value is encoded and the parser reads the bytes from
\* a PartialRead.
ParseInit ==
    /\ open = FALSE
    /\ wire = <<>>
    /\ ppc = "idle"
    /\ cur = NoCur
    /\ last = NoCall
    /\ prev = Summary(NoCall)
    /\ ncalls = 0
    /\ iofails = 0
    /\ store = 0
    /\ watch = <<>>
    /\ tx = <<>>
    /\ hist = <<>>
    /\ env = <<>>
    /\ subs = <<>>
    /\ subscribed_topics = <<>>
    /\ subscribed_patterns = <<>>
    /\ ps = "none"
    /\ pslast = <<>>
    /\ received = <<>>
    /\ budget = <<>>
    /\ lv = <<>>
    /\ cn = <<>>
    /\ hs = <<>>
    /\ sock = <<>>
    /\ cmp = <<>>
    /\ url = <<>>
    /\ dial = <<>>
    /\ dec \in [input : DOMAIN TestValues, pos : {0}, reads : {0}, blocks : {0},
                pc : {"reading"}, out : {NoParse}]

ParseFrame ==
    /\ UNCHANGED <<url, dial>>
    /\ UNCHANGED pipeVars
    /\ UNCHANGED txVars
    /\ UNCHANGED psVars
    /\ UNCHANGED coVars

\* The bytes of the value under test.
Encoded == encode_value(TestValues[dec.input].v)

\* A read delivers the next k bytes; the parser goes on with all the bytes
\* it has and returns when they hold a frame.
PartialRead(k) ==
    /\ dec.pc = "reading"
    /\ dec.pos + k <= Len(Encoded)
    /\ LET r == parse_frame(SubSeq(Encoded, 1, dec.pos + k)) IN
         dec' = [dec EXCEPT !.pos = dec.pos + k,
                            !.reads = IF @ < 2 THEN @ + 1 ELSE @,
                            !.pc = IF r.st = "incomplete" THEN "reading" ELSE "done",
                            !.out = CASE r.st = "ok" -> [ok |-> TRUE, v |-> r.v, err |-> ""]
                                      [] r.st = "err" -> [ok |-> FALSE, v |-> Nil,
                                                          err |-> "ResponseError"]
                                      [] OTHER -> @]
    /\ ParseFrame

\* A read is interrupted (io::ErrorKind::WouldBlock): nothing is delivered,
\* the parser keeps what it has and reads again.
WouldBlock ==
    /\ dec.pc = "reading"
    /\ dec.blocks < MaxBlocks
    /\ dec' = [dec EXCEPT !.blocks = @ + 1]
    /\ ParseFrame

ParseNext ==
    \/ \E k \in 1..MaxChunk : PartialRead(k)
    \/ WouldBlock

SpecParse == ParseInit /\ [][ParseNext]_vars

(* ------------------------------------------- properties of the pipeline *)

\* A req_packed_commands call that has returned after writing its bytes.
Returned == last.kind = "pipe" /\ last.written

\* The 1-based positions of the reads of call c that returned an error.
FailIdx(c) == {i \in 1..Len(c.got) : ~IsOk(c.got[i])}
IoIdx(c) == {i \in 1..Len(c.got) : c.got[i].kind = "io"}
Min(S) == CHOOSE x \in S : \A y \in S : x <= y

\* C1: once the bytes are written, req_packed_commands performs exactly
\* offset + count reads, whether they yield values or errors.
C1_ReadsExactlyOffsetPlusCount ==
    Returned => Len(last.got) = last.offset + last.count

\* C1 witness: a call returned whose reads went on after a failing one.
C1_Witness ==
    /\ Returned
    /\ Len(last.got) = last.offset + last.count
    /\ \E i \in FailIdx(last) : i < Len(last.got) /\ IsOk(last.got[i + 1])

\* C2: if some read failed, the call returns Err with the error of the
\* lowest-index failing read and no values.
C2_FirstErrorReported ==
    (Returned /\ FailIdx(last) # {}) =>
        /\ ~last.res.ok
        /\ last.res.vals = <<>>
        /\ last.res.err = Some(last.got[Min(FailIdx(last))])

\* C2 witness: two server errors, the first below offset, the second not.
C2_Witness ==
    /\ Returned
    /\ \E i, j \in FailIdx(last) :
          /\ i < j /\ i <= last.offset /\ j > last.offset
          /\ last.got[i] # last.got[j]
          /\ last.res.err = Some(last.got[i])

\* C3: if no read failed, the call returns Ok with exactly count values, the
\* replies at positions offset .. offset+count-1 of the stream in order;
\* with no stale reply ahead these are the replies to its own commands.
C3_OkValuesInRange ==
    (Returned /\ FailIdx(last) = {}) =>
        /\ last.res.ok
        /\ last.res.err = None
        /\ Len(last.res.vals) = last.count
        /\ \A j \in 1..last.count : last.res.vals[j] = last.got[last.offset + j]
        /\ last.stale = 0 =>
              \A j \in 1..last.count :
                 /\ last.res.vals[j].call = last.id
                 /\ last.res.vals[j].idx = last.offset + j - 1

\* C3 witness: a successful call that skipped replies and returned several.
C3_Witness ==
    /\ Returned /\ FailIdx(last) = {}
    /\ last.offset >= 1 /\ last.count >= 2 /\ last.stale = 0
    /\ last.res.ok /\ Len(last.res.vals) = last.count

\* C4: a batch whose failures are all error frames leaves the stream just
\* past its last reply, and the next req_packed_command reads the reply to
\* its own command.
C4_StreamInSyncAfterBatch ==
    /\ (Returned /\ last.stale = 0 /\ IoIdx(last) = {}) => wire = <<>>
    /\ ( /\ last.kind = "cmd" /\ last.written /\ IoIdx(last) = {}
         /\ prev.kind = "pipe" /\ prev.written /\ prev.sync )
       => /\ last.got[1].call = last.id
          /\ wire = <<>>

\* C4 witness: a batch of N >= 2 commands, one of them answered with an
\* error frame and not the last, then a command that got its own reply.
C4_Witness ==
    /\ prev.kind = "pipe" /\ prev.written /\ prev.batch
    /\ prev.nerr = 1 /\ prev.sync /\ ~prev.lasterr
    /\ last.kind = "cmd" /\ last.res.ok /\ last.got[1].call = last.id

(* ---------------------------------------- properties of transaction() *)

\* transaction() has returned Ok(result) to client c.
Done(c) == tx[c].pc = "done"
\* transaction() has returned an error to client c.
Failed(c) == tx[c].pc = "failed"

\* C5: transaction() returns Ok(result) only if the EXEC of the attempt that
\* produced the result was committed by the server and the key was not
\* modified between that attempt's WATCH and its EXEC.
C5_ResultOnlyFromCleanCommit ==
    \A c \in Clients :
        (Done(c) /\ hist[c].outcome # "skip") =>
            /\ hist[c].outcome = "commit"
            /\ hist[c].execVer = hist[c].watchVer
            /\ tx[c].result # None

\* C5 witness: a transaction returned after an aborted attempt and a retry.
C5_Witness ==
    \E c \in Clients :
        /\ Done(c) /\ hist[c].outcome = "commit"
        /\ hist[c].aborts >= 1 /\ hist[c].execVer = hist[c].watchVer

\* C6: on K = 5 without interference the example transaction returns (6,);
\* when every client has run it to completion no increment is lost: K is its
\* initial value plus one per transaction (plus the outside increments) and
\* the transactions return pairwise distinct values.
C6_NoLostIncrement ==
    /\ \A c \in Clients :
          (Done(c) /\ hist[c].outcome = "commit" /\ env.k0 = 5 /\ hist[c].execVer = 0)
              => tx[c].result = Some(<<6>>)
    /\ (\A c \in Clients : Done(c) /\ hist[c].outcome = "commit") =>
          /\ store = env.k0 + Cardinality(Clients) + env.muts
          /\ \A c, d \in Clients : c # d => tx[c].result # tx[d].result

\* C6 witness: both transactions completed on K = 5, one of them after a
\* retry, and one of them returned 6.
C6_Witness ==
    /\ env.k0 = 5
    /\ \A c \in Clients : Done(c) /\ hist[c].outcome = "commit"
    /\ \E c \in Clients : hist[c].aborts >= 1
    /\ \E c \in Clients : tx[c].result = Some(<<6>>)
    /\ store = 5 + Cardinality(Clients) + env.muts

\* C7: every invocation of the step function comes right after a WATCH on
\* the same connection and gets a fresh atomic pipeline; after a no-result
\* attempt the helper is back at WATCH, so the i-th invocation has seen
\* exactly i WATCH commands and nothing staged by an earlier attempt.
C7_WatchBeforeEveryStep ==
    \A c \in Clients :
        /\ tx[c].pc = "watch" =>
              hist[c].nErr = 0 /\ hist[c].nWatch = hist[c].nStep
              /\ hist[c].nStep = hist[c].aborts
        /\ tx[c].pc = "step" =>
              hist[c].lastCmd = "WATCH" /\ hist[c].nWatch = hist[c].nStep + 1
        /\ tx[c].pc = "exec" =>
              /\ hist[c].preStep = "WATCH"
              /\ hist[c].nWatch = hist[c].nStep
              /\ hist[c].nStep = hist[c].aborts + 1
              /\ tx[c].p.atomic
              /\ tx[c].p.cmds = <<[op |-> "SET", arg |-> tx[c].old_val + 1, ignore |-> TRUE],
                                  [op |-> "GET", arg |-> 0, ignore |-> FALSE]>>

\* C7 witness: the step function is running for the second time.
C7_Witness ==
    \E c \in Clients :
        /\ tx[c].pc = "exec" /\ hist[c].nStep = 2 /\ hist[c].nWatch = 2
        /\ Len(tx[c].p.cmds) = 2

\* C8: UNWATCH is issued exactly once when the step function returned a
\* result, after the step and before the return, whether or not the step
\* executed the pipeline, and never on an attempt without result.
C8_UnwatchOnceOnResult ==
    \A c \in Clients :
        /\ Done(c) =>
              /\ hist[c].nUnwatch = 1 /\ hist[c].lastCmd = "UNWATCH"
              /\ tx[c].response # None /\ tx[c].result = tx[c].response
        /\ tx[c].pc \in {"watch", "step", "exec", "unwatch"} => hist[c].nUnwatch = 0
        /\ tx[c].pc = "unwatch" => tx[c].response # None
        /\ Failed(c) =>
              /\ hist[c].nUnwatch <= 1
              /\ hist[c].nUnwatch = 1 =>
                    hist[c].errCmd = "UNWATCH" /\ tx[c].response # None

\* C8 witness: one transaction returned without executing its pipeline,
\* another after an aborted attempt and a commit; each issued one UNWATCH.
C8_Witness ==
    \E c, d \in Clients :
        /\ Done(c) /\ hist[c].outcome = "skip" /\ hist[c].nUnwatch = 1
        /\ Done(d) /\ hist[d].outcome = "commit" /\ hist[d].aborts >= 1
        /\ hist[d].nUnwatch = 1

\* C9: an error from WATCH, from the step function or from UNWATCH ends
\* transaction() at once: no command follows it, and a further WATCH is
\* issued only after the step function returned Ok(None).
C9_ErrorsAreNotRetried ==
    \A c \in Clients :
        /\ hist[c].nErr > 0 =>
              /\ Failed(c) /\ hist[c].nErr = 1
              /\ hist[c].lastCmd = hist[c].errCmd
              /\ tx[c].result = None
        /\ Failed(c) => hist[c].nErr = 1
        /\ hist[c].nWatch <= hist[c].aborts + 1

\* C9 witness: the reply to UNWATCH was not read after a committed attempt
\* that followed a retry.
C9_Witness ==
    \E c \in Clients :
        /\ Failed(c) /\ hist[c].errCmd = "UNWATCH" /\ hist[c].outcome = "commit"
        /\ hist[c].aborts >= 1 /\ hist[c].lastCmd = "UNWATCH"

\* C10: the retry loop has no iteration bound: as long as no command fails,
\* every aborted attempt is followed by a new WATCH and the helper does not
\* return; once the key is no longer modified, transaction() returns a result.
C10_RetriesUntilCommit ==
    /\ [](\A c \in Clients :
            hist[c].nErr = 0 =>
               /\ ~Failed(c)
               /\ hist[c].nWatch = hist[c].aborts + (IF tx[c].pc = "watch" THEN 0 ELSE 1)
               /\ Done(c) => hist[c].outcome \in {"commit", "skip"})
    /\ <>[](\A c \in Clients : Done(c) \/ hist[c].nErr > 0)

\* C10 witness: a transaction returned after two aborted attempts.
C10_Witness ==
    \E c \in Clients :
        Done(c) /\ hist[c].aborts >= 2 /\ hist[c].nWatch = 3 /\ hist[c].outcome = "commit"

(* ------------------------------------- properties of the tracked collections *)

\* The step is a call of one of the ops: its record is in pslast'.
PsStep(ops) == budget'.calls = budget.calls + 1 /\ pslast'.op \in ops

\* v without every occurrence of s, the rest in its order.
RECURSIVE Others(_, _)
Others(v, s) ==
    IF v = <<>> THEN <<>>
    ELSE (IF Head(v) = s THEN <<>> ELSE <<Head(v)>>) \o Others(Tail(v), s)

\* C11: subscribe(topic) / psubscribe(pattern) append the name to their
\* collection only when the command was written and a reply was read without
\* error, and then only to their own collection; when the call returns an
\* error both collections are as they were before the call.
C11_SubscribeTracksOnlyOnOk ==
    [][PsStep({"subscribe", "psubscribe"}) =>
         /\ pslast'.ok <=> (Len(pslast'.log) = 2 /\ Len(pslast'.reads) = 1
                               /\ pslast'.err = None)
         /\ pslast'.ok /\ pslast'.op = "subscribe" =>
                /\ subscribed_topics' = Append(subscribed_topics, pslast'.arg)
                /\ subscribed_patterns' = subscribed_patterns
         /\ pslast'.ok /\ pslast'.op = "psubscribe" =>
                /\ subscribed_patterns' = Append(subscribed_patterns, pslast'.arg)
                /\ subscribed_topics' = subscribed_topics
         /\ ~pslast'.ok =>
                /\ pslast'.err # None
                /\ subscribed_topics' = subscribed_topics
                /\ subscribed_patterns' = subscribed_patterns]_vars

\* C11 witness: a subscribe whose command reached the server and whose reply
\* was not read has returned an error, and the name is not tracked.
C11_Witness ==
    /\ pslast.op = "subscribe" /\ ~pslast.ok /\ pslast.log # <<>>
    /\ pslast.arg \in subs.topics
    /\ \A i \in DOMAIN subscribed_topics : subscribed_topics[i] # pslast.arg

C13_UnsubscribeRemovesName ==
    [][PsStep({"unsubscribe", "punsubscribe"}) =>
         /\ pslast'.ok /\ pslast'.op = "unsubscribe" =>
                /\ \A i \in DOMAIN subscribed_topics' :
                       subscribed_topics'[i] # pslast'.arg
                /\ subscribed_topics' = Others(subscribed_topics, pslast'.arg)
                /\ subscribed_patterns' = subscribed_patterns
         /\ pslast'.ok /\ pslast'.op = "punsubscribe" =>
                /\ \A i \in DOMAIN subscribed_patterns' :
                       subscribed_patterns'[i] # pslast'.arg
                /\ subscribed_patterns' = Others(subscribed_patterns, pslast'.arg)
                /\ subscribed_topics' = subscribed_topics
         /\ ~pslast'.ok =>
                /\ subscribed_topics' = subscribed_topics
                /\ subscribed_patterns' = subscribed_patterns]_vars

\* C13 witness: a tracked topic was unsubscribed with success and two other
\* topics are still tracked, while the server holds other subscriptions.
C13_Witness ==
    /\ pslast.op = "unsubscribe" /\ pslast.ok /\ pslast.had
    /\ Len(subscribed_topics) = 2
    /\ subscribed_topics[1] # subscribed_topics[2]
    /\ subs.topics # {}

(* ------------------------------------------------- properties of receive() *)

\* The step is a call of receive(): its record is in pslast'.
ReceiveStep ==
    /\ pslast'.op = "receive"
    /\ budget' = budget
    /\ <<wire, iofails>>' # <<wire, iofails>>

\* The kind of a frame: the text of its first element.
FrameKind(f) ==
    IF f.t = "Bulk" /\ Len(f.x) >= 1 /\ f.x[1].t = "Data" THEN f.x[1].x[1] ELSE "none"
IsConfirmation(f) ==
    FrameKind(f) \in {"subscribe", "psubscribe", "unsubscribe", "punsubscribe"}
HasMsgShape(f) ==
    \/ FrameKind(f) = "message" /\ Len(f.x) = 3
    \/ FrameKind(f) = "pmessage" /\ Len(f.x) = 4
\* The Msg a message or pmessage frame stands for.
MsgOf(f) ==
    IF FrameKind(f) = "pmessage"
    THEN [payload |-> f.x[4], channel |-> f.x[3], pattern |-> Some(f.x[2])]
    ELSE [payload |-> f.x[3], channel |-> f.x[2], pattern |-> None]

\* C14: receive() reads the unread frames in arrival order; every frame it
\* reads before the last is a confirmation, and none of them is returned; it
\* returns Ok exactly for a last frame of message or pmessage shape, and a
\* TypeError for a last frame that is neither that nor a confirmation.
C14_ReceiveSkipsConfirmations ==
    [][ReceiveStep =>
         LET c == pslast'
             n == Len(c.reads)
         IN  /\ n <= Len(wire)
             /\ c.reads = SubSeq(wire, 1, n)
             /\ wire' = SubSeq(wire, n + 1, Len(wire))
             /\ \A i \in 1..(n - 1) : IsConfirmation(c.reads[i])
             /\ c.ok =>
                    /\ n >= 1
                    /\ ~IsConfirmation(c.reads[n])
                    /\ HasMsgShape(c.reads[n])
                    /\ Len(received') = Len(received) + 1
             /\ ~c.ok =>
                    /\ received' = received
                    /\ IF c.err = Some(TypeError)
                       THEN n >= 1 /\ ~IsConfirmation(c.reads[n]) /\ ~HasMsgShape(c.reads[n])
                       ELSE \A i \in 1..n : IsConfirmation(c.reads[i])]_vars

\* C14 witness: receive() has returned a message after skipping confirmations.
C14_Witness ==
    /\ pslast.op = "receive" /\ pslast.ok
    /\ Len(pslast.reads) >= 2
    /\ IsConfirmation(pslast.reads[1])

\* C18: the Msg receive() returns for a pmessage frame has the frame's
\* pattern, channel and payload, the one for a message frame has no pattern;
\* when no published frame was lost the Msgs returned are those of the frames
\* published, in order (two pattern matches and a topic message give
\* patterns Some, Some, None).
C18_PatternOnlyForPmessage ==
    /\ (pslast.op = "receive" /\ pslast.ok) =>
          received[Len(received)] = MsgOf(pslast.reads[Len(pslast.reads)])
    /\ (ps = "session" /\ Len(received) = Len(budget.sent)) =>
          \A i \in DOMAIN received : received[i] = MsgOf(budget.sent[i])

\* C18 witness: the session holds one topic and one pattern and has returned
\* three Msgs with patterns Some, Some, None.
C18_Witness ==
    /\ Cardinality(subs.topics) = 1 /\ Cardinality(subs.patterns) = 1
    /\ Len(received) = 3
    /\ received[1].pattern # None
    /\ received[2].pattern # None
    /\ received[3].pattern = None

(* ---------------------------------------------- properties of exit_pubsub() *)

Exited == pslast.op = "exit_pubsub"

\* C15: exit_pubsub() writes UNSUBSCRIBE and then PUNSUBSCRIBE before it reads
\* any reply; when one of the two writes fails it returns the I/O error and
\* has read nothing.
C15_BothWritesBeforeAnyRead ==
    Exited =>
        LET log == pslast.log
            bothWritten == Len(log) >= 2 /\ log[1] = "UNSUBSCRIBE" /\ log[2] = "PUNSUBSCRIBE"
        IN  /\ \A i \in DOMAIN log : log[i] = "read" => (bothWritten /\ i > 2)
            /\ \A i \in DOMAIN log : log[i] = "UNSUBSCRIBE" => i = 1
            /\ \A i \in DOMAIN log : log[i] = "PUNSUBSCRIBE" => i = 2
            /\ ~bothWritten =>
                   /\ ~pslast.ok
                   /\ pslast.err # None /\ pslast.err[1].kind = "io"
                   /\ pslast.reads = <<>>
            /\ pslast.ok => bothWritten

\* C15 witness: the first write succeeded, the second failed, and the call
\* returned without a read.
C15_Witness ==
    /\ Exited /\ ~pslast.ok
    /\ pslast.log = <<"UNSUBSCRIBE">>

\* The drain loop's exit condition as the claim states it, after the k-th
\* reply read: an unsubscribe and a punsubscribe reply are among the first k,
\* and the k-th carries a remaining-count of 0.
CountZero(f) == f.t = "Bulk" /\ Len(f.x) = 3 /\ f.x[3] = IntV(0)
StopAt(reads, k) ==
    /\ \E i \in 1..k : FrameKind(reads[i]) = "unsubscribe"
    /\ \E i \in 1..k : FrameKind(reads[i]) = "punsubscribe"
    /\ CountZero(reads[k])

C17_ExitLeavesConnectionClean ==
    /\ ps = "released" => (wire = <<>> /\ subs = NoSubs)
    /\ (ps = "used" /\ pslast.ok) => pslast.reads = <<Status("PONG")>>

(* ---------------------------------------------------- properties of is_open *)

\* An error that reports a dropped connection: broken pipe or connection reset.
Dropped(e) == e.kind = "io" /\ e.io \in {"BrokenPipe", "ConnectionReset"}

\* C19: once a write or a read of the connection has failed with broken pipe
\* or connection reset, is_open() is false: for the failing write of
\* send_bytes and for the failing reads of req_packed_command and
\* req_packed_commands alike.
C19_DroppedIoClosesConnection ==
    (\/ \E i \in DOMAIN cur.got : Dropped(cur.got[i])
     \/ \E i \in DOMAIN last.got : Dropped(last.got[i])
     \/ last.res.err # None /\ Dropped(last.res.err[1]))
        => ~open

\* C20: is_open() is true on a fresh connection and never goes from false
\* back to true, whatever is done on the connection afterwards.
C20_IsOpenMonotone ==
    (open = TRUE) /\ [][(open = FALSE) => (open' = FALSE)]_vars

\* C20 witness: the flag is false and a later call on the connection has
\* written its command and returned Ok.
C20_Witness ==
    /\ ~open
    /\ last.kind # "none" /\ last.written /\ last.res.ok

(* ------------------------------------ properties of the liveness flag *)

\* A call on the connection returns in this step.
LiveStep == ncalls' = ncalls + 1
Timeouts == {"TimedOut", "WouldBlock"}
Drops == {"BrokenPipe", "ConnectionReset"}

C22_ClosedAfterInvalidRead ==
    lv.closed => (open = FALSE)

\* Replies that decode to a string: a status, OK, or bulk data that is UTF-8.
StringCompatible(f) ==
    f.t \in {"Status", "Okay"} \/ (f.t = "Data" /\ f.x[1] # InvalidUtf8)

\* C29: check_connection() writes one PING and returns true exactly when the
\* write succeeded, a reply was read without error, and that reply is neither
\* an error frame nor a value that is not string compatible; in every other
\* case it returns false. One command is written and at most one reply read.
C29_CheckConnectionSwallowsErrors ==
    [][(LiveStep /\ lv'.op = "check_connection") =>
        /\ lv'.res <=> /\ lv'.w = "ok"
                       /\ lv'.r = "ok"
                       /\ lv'.got # None
                       /\ StringCompatible(lv'.got[1])
        /\ lv'.res \in BOOLEAN
        /\ Len(wire') = Len(wire) + (IF lv'.w = "ok" THEN 1 ELSE 0)
                                  - (IF lv'.got # None THEN 1 ELSE 0)]_vars

\* check_connection() has returned false on a reply that was read without
\* error but is not a string, after a probe that returned true.
C29_Witness ==
    /\ lv.op = "check_connection" /\ ~lv.res
    /\ lv.w = "ok" /\ lv.r = "ok" /\ lv.got = Some(Nil)
    /\ ncalls >= 2

(* ------------------------------------------- properties of RedisError *)

\* Two errors of the same kind, and of the same code when they are
\* extension errors.
SameKind(a, b) ==
    a.kind = b.kind /\ (a.kind = "ExtensionError" => a.code = b.code)

\* C30: two RedisErrors compare equal exactly when they have the same kind
\* (and, for extension errors, the same code), whatever their text and
\* detail and whether or not they carry a detail; in particular two I/O
\* errors compare equal and every error equals itself.
C30_EqualityByKindOnly ==
    cmp.done => (cmp.eq <=> SameKind(cmp.a, cmp.b))

\* C30, as amended: two RedisErrors compare equal exactly when they are of
\* the same representation, not I/O errors, and have the same kind (for
\* extension errors the same code); text and detail never matter. An I/O
\* error equals no error, itself included, and an error with a detail never
\* equals one without.
C30_EqualityByKindWithinRepr ==
    cmp.done =>
        (cmp.eq <=> /\ cmp.a.repr = cmp.b.repr
                    /\ cmp.a.repr # "IoError"
                    /\ SameKind(cmp.a, cmp.b))

\* Two errors with different texts have compared equal.
C30_Witness ==
    cmp.done /\ cmp.eq /\ cmp.a.desc # cmp.b.desc /\ cmp.a.detail # cmp.b.detail

(* ------------------------------------------------- properties of connect *)

\* The AUTH commands connect has written.
Auths == SelectSeq(cn.log, LAMBDA e : e.name = "AUTH")
Selects == SelectSeq(cn.log, LAMBDA e : e.name = "SELECT")
\* The reply to command e was OK; it was the wrong-arity error for AUTH.
ReplyOk(e) == e.q.ok /\ e.q.v = Okay
ArityErr(e) == ~e.q.ok /\ e.q.err[1].kind = "ResponseError" /\ e.q.err[1].detail = WrongArity
\* The AUTH exchange has succeeded: connect has gone on to SELECT or returned Ok.
AuthPassed == cn.pc = "select" \/ Selects # <<>> \/ (cn.pc = "done" /\ cn.res[1].ok)
\* connect has returned an error of the given kind, and no Connection.
Refused(kind) ==
    /\ cn.pc = "done"
    /\ ~cn.res[1].ok
    /\ cn.res[1].err[1].kind = kind
    /\ cn.rv = None

\* C23: with a password, the first command of connect is AUTH [username]
\* password. An OK reply ends the exchange with success. The wrong-arity
\* error is followed by one AUTH password, and the exchange succeeds exactly
\* when that reply is OK. Every other outcome of the first AUTH (write or
\* read failure, another error, a value that is not OK) and every failure of
\* the fallback ends connect with an error and no Connection, the last
\* command written being that AUTH; at most two AUTH commands are written.
\* (The error is AuthenticationFailed, except that a value other than OK in
\* reply to the first AUTH is reported as ResponseError.)
C23_AuthFallbackOnce ==
    (cn.log # <<>> /\ cn.info.password # None) =>
        LET a == cn.log[1] IN
        /\ a.name = "AUTH"
        /\ a.args = (IF cn.info.username # None THEN cn.info.username ELSE <<>>)
                        \o cn.info.password
        /\ Len(Auths) <= 2
        /\ ReplyOk(a) => (Len(Auths) = 1 /\ AuthPassed)
        /\ (~ReplyOk(a) /\ ~ArityErr(a)) =>
              /\ Len(cn.log) = 1
              /\ Refused(IF a.q.ok THEN "ResponseError" ELSE "AuthenticationFailed")
        /\ ArityErr(a) =>
              \/ cn.pc = "fallback" /\ Len(cn.log) = 1
              \/ /\ Len(cn.log) >= 2
                 /\ cn.log[2].name = "AUTH"
                 /\ cn.log[2].args = cn.info.password
                 /\ Len(Auths) = 2
                 /\ ReplyOk(cn.log[2]) <=> AuthPassed
                 /\ ~ReplyOk(cn.log[2]) =>
                        (Len(cn.log) = 2 /\ Refused("AuthenticationFailed"))

\* connect has returned a Connection after AUTH username password was
\* refused for its arity and AUTH password was accepted.
C23_Witness ==
    /\ cn.pc = "done" /\ cn.res[1].ok
    /\ Len(Auths) = 2
    /\ cn.log[1].args = <<"user", "pw">> /\ ArityErr(cn.log[1])
    /\ cn.log[2].args = <<"pw">> /\ ReplyOk(cn.log[2])

\* The transport connect of connect() has succeeded.
TransportOk ==
    cn.pc # "start" /\ ~(cn.pc = "done" /\ cn.log = <<>> /\ ~cn.res[1].ok)

\* C24: connect writes nothing before the transport is connected and nothing
\* when the transport connect fails; then come the AUTH exchange, exactly when
\* a password is supplied, and SELECT, exactly when db != 0 and only after the
\* AUTH exchange (if any) has succeeded; a command that fails is the last one
\* written and connect returns an error; with no password and db = 0 connect
\* returns the Connection without writing a command.
C24_ConnectOrder ==
    /\ (cn.pc = "start") => (cn.log = <<>> /\ open = FALSE)
    /\ (cn.pc # "start" /\ ~TransportOk) => (cn.log = <<>> /\ cn.rv = None)
    /\ \A i, j \in DOMAIN cn.log :
          (cn.log[i].name = "SELECT" /\ cn.log[j].name = "AUTH") => j < i
    /\ Len(Selects) <= 1
    /\ TransportOk =>
          /\ (cn.info.password # None) <=> (Auths # <<>> \/ cn.pc = "auth")
          /\ (Selects # <<>> \/ cn.pc = "select") =>
                /\ cn.info.db # 0
                /\ cn.info.password # None =>
                      (Auths # <<>> /\ ReplyOk(Auths[Len(Auths)]))
          /\ (cn.pc = "done" /\ cn.res[1].ok) =>
                /\ (Selects # <<>>) <=> (cn.info.db # 0)
                /\ \A i \in DOMAIN cn.log : ReplyOk(cn.log[i]) \/ (i = 1 /\ ArityErr(cn.log[1]))
                /\ cn.rv = Some([db |-> cn.info.db, pubsub |-> FALSE])
          /\ \A i \in DOMAIN cn.log :
                (~ReplyOk(cn.log[i]) /\ ~(i = 1 /\ cn.log[1].name = "AUTH" /\ ArityErr(cn.log[1]))) =>
                    (i = Len(cn.log) /\ cn.pc = "done" /\ ~cn.res[1].ok /\ cn.rv = None)
          /\ (cn.info.password = None /\ cn.info.db = 0) =>
                (cn.log = <<>> /\ cn.pc = "done" /\ cn.res[1].ok)

\* connect has returned a Connection after AUTH and then SELECT, both
\* answered with OK.
C24_Witness ==
    /\ cn.pc = "done" /\ cn.res[1].ok
    /\ Len(cn.log) = 2
    /\ cn.log[1].name = "AUTH" /\ cn.log[2].name = "SELECT"

C26_StripPreservesDbAndFlag ==
    [][\A k \in Handles :
          (hs[k].type = "free" /\ hs'[k].type # "free") =>
              LET h == hs'[k].of IN
              /\ (hs'[k].via = "strip") =>
                    /\ hs'[k].type = "StrippedConnection"
                    /\ hs'[k].db = hs[h].db
                    /\ hs'[k].pubsub = hs[h].pubsub
                    /\ hs'[h] = hs[h]
              /\ (hs'[k].via = "with_parser") =>
                    /\ hs'[k].type = "Connection"
                    /\ hs'[k].parser = "fresh"
                    /\ hs'[k].con = hs[h].con
                    /\ hs'[k].db = hs[hs[h].of].db
                    /\ hs'[k].pubsub = hs[hs[h].of].pubsub
                    /\ hs'[k].con.sock = hs[hs[h].of].con.sock
                    /\ hs'[h] = hs[h]]_vars

\* A Connection on database 1 whose parser has been used was stripped and
\* the stripped copy given a parser again.
C26_Witness ==
    \E k \in Handles :
        /\ hs[k].via = "with_parser"
        /\ hs[k].db = 1
        /\ hs[hs[k].of].via = "strip"
        /\ hs[hs[hs[k].of].of].parser = "used"

C28_SessionOwnsSocket ==
    ~sock.foreign

(* ------------------------------------------------ a write that fails (C38) *)

\* The call that has just returned did not get its bytes written.
WriteFailed(c) == c.kind # "none" /\ ~c.written

\* C38: if writing the command bytes fails, req_packed_command and
\* req_packed_commands return that write error (the flag follows from its
\* kind as send_bytes sets it) without reading any reply: the call has read
\* nothing and the unread replies of the connection are what they were when
\* the call started.
C38_WriteErrorReadsNothing ==
    [][(last' # last /\ WriteFailed(last'))
         => /\ ~last'.res.ok
            /\ last'.res.err # None
            /\ last'.res.err[1].kind = "io"
            /\ last'.res.err[1].io \in FailKinds
            /\ open' = send_bytes_open(open, last'.res.err[1].io)
            /\ last'.got = <<>>
            /\ Len(wire') = last'.stale
            /\ (ppc = "idle" => wire' = wire)]_vars

\* A req_packed_command has failed in its write after a req_packed_commands
\* that was written and has read its replies.
C38_Witness ==
    /\ WriteFailed(last)
    /\ last.kind = "cmd"
    /\ prev.kind = "pipe" /\ prev.written /\ prev.batch

(* ------------------------------------- duplicates in the collections (C39) *)

\* How many entries of v are the name s.
Count(v, s) == Cardinality({i \in DOMAIN v : v[i] = s})

\* C39: the tracked collections are lists with duplicates: every successful
\* subscribe(t) / psubscribe(p) adds one more entry for the name, also when
\* the name is tracked already, so n successful calls leave n entries; one
\* successful unsubscribe(t) / punsubscribe(p) removes all the entries of the
\* name at once.
C39_CollectionsKeepDuplicates ==
    [][PsStep({"subscribe", "psubscribe", "unsubscribe", "punsubscribe"}) /\ pslast'.ok =>
         LET t == pslast'.arg IN
         /\ pslast'.op = "subscribe" =>
                Count(subscribed_topics', t) = Count(subscribed_topics, t) + 1
         /\ pslast'.op = "psubscribe" =>
                Count(subscribed_patterns', t) = Count(subscribed_patterns, t) + 1
         /\ pslast'.op = "unsubscribe" =>
                /\ Count(subscribed_topics', t) = 0
                /\ Len(subscribed_topics') = Len(subscribed_topics) - Count(subscribed_topics, t)
         /\ pslast'.op = "punsubscribe" =>
                /\ Count(subscribed_patterns', t) = 0
                /\ Len(subscribed_patterns') =
                       Len(subscribed_patterns) - Count(subscribed_patterns, t)]_vars

\* Two successful subscribe(t) and two successful psubscribe(p) have left two
\* entries for t and two for p.
C39_Witness ==
    /\ budget.calls = 4
    /\ \E t \in Topics : Count(subscribed_topics, t) = 2
    /\ \E p \in Patterns : Count(subscribed_patterns, p) = 2

(* ------------------------------------------------ the pubsub flag (C35) *)

\* C35: as_pubsub() does not raise the pubsub flag, and neither does any
\* other operation: in every state reached from connect() by as_pubsub,
\* session calls, exit_pubsub, requests, clone, strip and with_parser, the
\* flag of every Connection, StrippedConnection and session is false.
C35_PubsubFlagNeverRaised ==
    \A h \in Handles : ~hs[h].pubsub

\* A session made by as_pubsub() has handed its Connection back through
\* exit_pubsub(), next to a copy made by strip() and with_parser().
C35_Witness ==
    /\ sock.op = "exit_pubsub"
    /\ \E h \in Handles : hs[h].via = "as_pubsub" /\ hs[h].type = "Connection"
    /\ \E k \in Handles : hs[k].via = "with_parser"

(* --------------------------------------- is_open() of the copies (C34) *)

\* The step makes handle k, a Connection, from handle h: by h.clone(), or by
\* with_parser() of the StrippedConnection h.
Copied(k, h) ==
    /\ hs[k].type = "free"
    /\ hs'[k].type = "Connection"
    /\ hs'[k].of = h
    /\ hs'[k].con.sock = hs[h].con.sock

\* The step is a call on the socket through handle h.
CallThrough(h) == sock'.n = sock.n + 1 /\ sock'.h = h

\* A call through one handle leaves is_open() of every other handle alone.
OthersKeepOpen ==
    \A h \in Handles : CallThrough(h) =>
        \A k \in Handles \ {h} : hs'[k].con = hs[k].con

\* C34 as claimed: the copy shares the socket and its is_open() is not
\* copied from the original: until the copy is used it reports what a new
\* connection reports, open; and a drop seen through one handle does not
\* change is_open() of the other.
C34_CopyOpenRederived ==
    [][/\ \A k \in Handles, h \in Handles : Copied(k, h) => hs'[k].con.open = TRUE
       /\ OthersKeepOpen]_vars

\* C34 amended: the copy shares the socket and starts with is_open() of the
\* handle it is copied from, as it is at that moment (strip() and
\* with_parser() each copy it too); afterwards a call through one handle
\* changes is_open() of that handle only.
C34_CopyOpenCopiedThenIndependent ==
    [][/\ \A k \in Handles, h \in Handles : Copied(k, h) => hs'[k].con = hs[h].con
       /\ \A k \in Handles, h \in Handles :
             (hs[k].type = "free" /\ hs'[k].type = "StrippedConnection" /\ hs'[k].of = h)
                 => hs'[k].con = hs[h].con
       /\ OthersKeepOpen]_vars

\* Handle 1 has seen the connection dropped in its one call; its clone made
\* before that is open, its clone made after that is not and was never used.
C34_Witness ==
    /\ sock.n = 1 /\ sock.h = 1
    /\ ~hs[1].con.open
    /\ \E k \in Handles, j \in Handles :
          /\ hs[k].via = "clone" /\ hs[k].of = 1 /\ hs[k].con.open
          /\ hs[j].via = "clone" /\ hs[j].of = 1 /\ ~hs[j].con.open

(* ------------------------------------- delivery of every message (C36) *)

\* The message and pmessage frames among the unread frames, in their order.
UnreadMessages == SelectSeq(wire, HasMsgShape)

\* C36: every message frame the server has delivered to the session's
\* connection and that is no longer unread was returned by one receive(), in
\* delivery order, whatever subscribe / psubscribe / unsubscribe /
\* punsubscribe calls were made between arrival and receive().
C36_EveryMessageReceived ==
    (ps = "session") =>
        LET n == Len(budget.sent) - Len(UnreadMessages)
        IN  received = [i \in 1..n |-> MsgOf(budget.sent[i])]

(* --------------------------- messages in the drain of exit_pubsub (C37) *)

\* The step is a call of exit_pubsub() that wrote both commands.
ExitDrainStep ==
    /\ ps = "session" /\ ps' # "session"
    /\ pslast'.op = "exit_pubsub"
    /\ Len(pslast'.log) >= 2

\* C37: exit_pubsub() reads the unread frames in order and decodes each as
\* (name, ignored, integer count); a frame that does not decode is never
\* skipped: it is the last frame read, the call returns a TypeError and the
\* Connection is dropped with the session. So when a published message is
\* unread among the confirmations (a pmessage of four elements, or a message
\* whose payload is not an integer) exit_pubsub() does not return Ok.
C37_ExitFailsOnQueuedMessage ==
    [][ExitDrainStep =>
         LET c == pslast'
             n == Len(c.reads)
         IN  /\ \A i \in 1..Min({n, Len(wire)}) : c.reads[i] = wire[i]
             /\ \A i \in 1..(n - 1) : from_redis_value_tuple(c.reads[i]) # None
             /\ \A i \in 1..n :
                    from_redis_value_tuple(c.reads[i]) = None =>
                        /\ i = n
                        /\ ~c.ok
                        /\ c.err = Some(TypeError)
                        /\ ps' = "dropped"
             /\ \A i \in 1..n : HasMsgShape(c.reads[i]) => ~c.ok /\ ps' = "dropped"
             /\ (UnreadMessages # <<>>) => ~c.ok /\ ps' # "released"]_vars

\* exit_pubsub() has read a confirmation and then a pmessage frame, and has
\* returned a TypeError; the connection is dropped.
C37_Witness ==
    /\ pslast.op = "exit_pubsub"
    /\ pslast.err = Some(TypeError)
    /\ ps = "dropped"
    /\ Len(pslast.reads) >= 2
    /\ IsConfirmation(pslast.reads[1])
    /\ FrameKind(pslast.reads[Len(pslast.reads)]) = "pmessage"

(* ------------------------------------- the database index of a URL (C32) *)

\* The path between its slashes is the decimal text of a non-negative
\* integer: digits only, at least one.
IsDecimalText(t) == t # <<>> /\ \A i \in DOMAIN t : t[i] \in Digits

\* C32: parsing a URL yields db = 0 when the path is empty, db = n when the
\* path is the decimal text of a non-negative integer n, and an
\* InvalidClientConfig error for every other path, a non-numeric one such as
\* /db and a negative number such as /-1 alike.
C32_DbIsNonNegativeDecimal ==
    url.done =>
        LET t == trim_matches(url.path) IN
        IF t = <<>> THEN url.res.ok /\ url.res.db = 0
        ELSE IF IsDecimalText(t) THEN url.res.ok /\ url.res.db = Decimal(t)
        ELSE /\ ~url.res.ok
             /\ url.res.err # None
             /\ url.res.err[1].kind = "InvalidClientConfig"

(* ------------------------------------- the addresses are tried in order (C33) *)

\* The addresses that accept the connection.
Accepting == {j \in 1..Len(dial.addrs) : dial.addrs[j] = "ok"}

\* C33: ActualConnection::new with a timeout attempts the resolved addresses
\* in resolution order, stops at the first that connects and attempts none
\* after it; when every attempt has failed it returns the I/O error of the
\* last attempt, and when resolution yields no address a generic
\* could-not-resolve error.
C33_FirstAddressThatConnects ==
    /\ dial.tried = [j \in 1..Len(dial.tried) |-> j]
    /\ \A j \in 1..(Len(dial.tried) - 1) : dial.addrs[j] # "ok"
    /\ (dial.pc = "done" /\ dial.resolve = "ok") =>
          IF Accepting # {}
          THEN /\ dial.res.ok
               /\ dial.res.tcp = Some(Min(Accepting))
               /\ Len(dial.tried) = Min(Accepting)
               /\ open
          ELSE IF dial.addrs # <<>>
          THEN /\ ~dial.res.ok
               /\ Len(dial.tried) = Len(dial.addrs)
               /\ dial.res.err # None
               /\ dial.res.err[1].repr = "IoError"
               /\ dial.res.err[1].io = dial.addrs[Len(dial.addrs)]
          ELSE /\ ~dial.res.ok
               /\ dial.tried = <<>>
               /\ dial.res.err # None
               /\ dial.res.err[1].kind = "InvalidClientConfig"
               /\ dial.res.err[1].desc = "could not resolve to any addresses"

\* Of three addresses the first has refused, the second has accepted, and
\* the third, which would have accepted too, was not attempted.
C33_Witness ==
    /\ dial.pc = "done"
    /\ dial.addrs = <<"ConnectionRefused", "ok", "ok">>
    /\ dial.tried = <<1, 2>>
    /\ dial.res.ok

(* --------------------------------------- the round trip through RESP (C31) *)

\* The parse under test has returned Ok with the value that was encoded,
\* which is also what the parser returns for the bytes in one piece.
RoundTrip ==
    LET whole == parse_frame(Encoded) IN
    /\ dec.out.ok
    /\ SameValue(dec.out.v, TestValues[dec.input].v)
    /\ dec.pos = Len(Encoded)
    /\ whole.st = "ok" /\ whole.rest = <<>>
    /\ SameValue(whole.v, dec.out.v)

\* Does the value hold a Status of the text "OK".
RECURSIVE HasStatusOK(_)
HasStatusOK(v) ==
    \/ v.t = "Status" /\ v.x[1] = OK
    \/ v.t = "Bulk" /\ \E i \in DOMAIN v.x : HasStatusOK(v.x[i])

====
